---------------------------- MODULE Spec2Model ----------------------------
(***************************************************************************)
(* A model of the RouterOS API client (createRouterOSClient): the length   *)
(* codec, the sentence parser, the record projector, the command engine    *)
(* (runCommand), the login orchestrator and close(), over a Node socket.   *)
(*                                                                         *)
(* Text is a sequence of code points, a byte array a sequence of 0..255.   *)
(* Offsets into byte arrays are 0-based, as in the source.                 *)
(***************************************************************************)
EXTENDS Integers, Sequences, FiniteSets, TLC

(***************************************************************************)
(* Bounds of the model.                                                    *)
(***************************************************************************)
\* runCommand invocations one client makes in a run (login's included)
MaxCmds == 2
\* calls of close() in a run
MaxCloses == 2
\* 'data' events of a run that end inside a segment
MaxCuts == 1
\* most complete sentences in an input of the parser model
MaxSents == 2
\* most words in a sentence of the parser model
MaxWords == 2
\* most words in a word list, most params entries, of the codec model
MaxItems == 2
\* how far from each border of the length ranges the codec model's lengths lie
MaxAway == 3
\* most calls made on the emitter from outside
MaxOps == 4

(***************************************************************************)
(* JavaScript values and string operations.                                *)
(***************************************************************************)
\* buffer[i] of a Uint8Array: -1 stands for undefined (index out of range)
At(buffer, i) ==
    IF i >= 0 /\ i < Len(buffer) THEN buffer[i + 1] ELSE -1

\* x ?? 0 on a byte read
OrZero(x) ==
    IF x = -1 THEN 0 ELSE x

\* Uint8Array.prototype.slice(start, end), String.prototype.slice(start, end)
Slice(s, start, end) ==
    LET lo == IF start < 0 THEN 0 ELSE IF start > Len(s) THEN Len(s) ELSE start
        hi == IF end < 0 THEN 0 ELSE IF end > Len(s) THEN Len(s) ELSE end
    IN  IF hi <= lo THEN <<>> ELSE SubSeq(s, lo + 1, hi)

SliceFrom(s, start) ==
    Slice(s, start, Len(s))

\* String.prototype.startsWith
StartsWith(s, prefix) ==
    /\ Len(s) >= Len(prefix)
    /\ SubSeq(s, 1, Len(prefix)) = prefix

RECURSIVE ConcatAll(_)
\* concatUint8Arrays, and Array.prototype.join("") on text
ConcatAll(arrays) ==
    IF arrays = <<>> THEN <<>>
    ELSE IF Len(arrays) = 1 THEN arrays[1]
    ELSE LET half == Len(arrays) \div 2
         IN  ConcatAll(SubSeq(arrays, 1, half))
                 \o ConcatAll(SubSeq(arrays, half + 1, Len(arrays)))

RECURSIVE Join(_, _)
\* Array.prototype.join(sep)
Join(items, sep) ==
    IF items = <<>> THEN <<>>
    ELSE IF Len(items) = 1 THEN items[1]
    ELSE items[1] \o sep \o Join(Tail(items), sep)

RECURSIVE Split(_, _)
\* String.prototype.split(ch) for a one-character separator
Split(s, ch) ==
    IF \A i \in 1..Len(s) : s[i] # ch THEN <<s>>
    ELSE LET i == CHOOSE j \in 1..Len(s) :
                      /\ s[j] = ch
                      /\ \A k \in 1..(j - 1) : s[k] # ch
         IN  <<SubSeq(s, 1, i - 1)>> \o Split(SubSeq(s, i + 1, Len(s)), ch)

\* 32-bit bitwise operators of JavaScript, on the operands the codec gives them
RECURSIVE BitAnd(_, _)
\* a & b for an int32 a (possibly negative, in two's complement) and b >= 0
\* (two bits at a step)
BitAnd(a, b) ==
    IF a = 0 \/ b = 0 THEN 0
    ELSE (a % 2) * (b % 2) + 2 * (((a \div 2) % 2) * ((b \div 2) % 2))
             + 4 * BitAnd(a \div 4, b \div 4)

RECURSIVE BitOrNat(_, _)
BitOrNat(a, b) ==
    IF a = 0 THEN b
    ELSE IF b = 0 THEN a
    ELSE (IF a % 2 = 1 \/ b % 2 = 1 THEN 1 ELSE 0) + 2 * BitOrNat(a \div 2, b \div 2)

\* a | b where a is an int32 (possibly negative) and b is non-negative
BitOr(a, b) ==
    IF a >= 0 THEN BitOrNat(a, b) ELSE a + BitAnd(-(a + 1), b)

RECURSIVE Pow2(_)
Pow2(n) ==
    IF n = 0 THEN 1 ELSE 2 * Pow2(n - 1)

\* x << n for 0 <= x < 2^31 and 0 < n < 32, with the int32 wrap of the result
Shl(x, n) ==
    LET m  == Pow2(32 - n)
        xr == x % m
    IN  IF xr >= m \div 2 THEN (xr - m) * Pow2(n) ELSE xr * Pow2(n)

\* x >> n for an int32 (the sign is kept)
Shr(x, n) ==
    x \div Pow2(n)

(***************************************************************************)
(* UTF-8.  The model's text holds code points of the Basic Multilingual    *)
(* Plane without surrogates; its byte arrays hold no byte 0xF0..0xF7, so   *)
(* that every byte that starts no sequence of one to three bytes is        *)
(* decoded to U+FFFD.                                                      *)
(***************************************************************************)
\* the UTF-8 bytes of one code point
Utf8Bytes(cp) ==
    IF cp < 128 THEN <<cp>>
    ELSE IF cp < 2048 THEN <<192 + (cp \div 64), 128 + (cp % 64)>>
    ELSE <<224 + (cp \div 4096), 128 + ((cp \div 64) % 64), 128 + (cp % 64)>>

\* new TextEncoder().encode(text)
Utf8Encode(text) ==
    ConcatAll([i \in 1..Len(text) |-> Utf8Bytes(text[i])])

RECURSIVE Utf8Scalars(_)
\* the code points of a byte array: each ill-formed part gives one U+FFFD
Utf8Scalars(bytes) ==
    IF bytes = <<>> THEN <<>>
    ELSE LET b0     == bytes[1]
             b1     == IF Len(bytes) >= 2 THEN bytes[2] ELSE -1
             b2     == IF Len(bytes) >= 3 THEN bytes[3] ELSE -1
             cont1  == b1 >= 128 /\ b1 <= 191
             cont2  == b2 >= 128 /\ b2 <= 191
             \* the second byte of a three-byte sequence: E0 and ED narrow it
             second == /\ cont1
                       /\ b0 = 224 => b1 >= 160
                       /\ b0 = 237 => b1 <= 159
             rest(n) == Utf8Scalars(SubSeq(bytes, n + 1, Len(bytes)))
             \* the bytes below 0x80 that bytes begins with
             ascii  == CHOOSE n \in 0..Len(bytes) :
                           /\ \A i \in 1..n : bytes[i] < 128
                           /\ n < Len(bytes) => bytes[n + 1] >= 128
         IN  IF b0 < 128 THEN SubSeq(bytes, 1, ascii) \o rest(ascii)
             ELSE IF b0 >= 194 /\ b0 <= 223 /\ cont1
             THEN <<(b0 - 192) * 64 + (b1 - 128)>> \o rest(2)
             ELSE IF b0 >= 224 /\ b0 <= 239 /\ second /\ cont2
             THEN <<(b0 - 224) * 4096 + (b1 - 128) * 64 + (b2 - 128)>> \o rest(3)
             ELSE IF b0 >= 224 /\ b0 <= 239 /\ second
             THEN <<65533>> \o rest(2)
             ELSE <<65533>> \o rest(1)

\* new TextDecoder().decode(bytes): ignoreBOM is false, a leading U+FEFF is
\* left out of the result
Utf8Decode(bytes) ==
    LET scalars == Utf8Scalars(bytes)
    IN  IF scalars # <<>> /\ scalars[1] = 65279 THEN Tail(scalars) ELSE scalars

(***************************************************************************)
(* Length codec and word codec.                                            *)
(***************************************************************************)
\* encodeLength(len), for 0 <= len < 2^32.  len is given by its int32 image,
\* on which >> and & work: a negative len stands for the number len + 2^32
encodeLength(len) ==
    IF len >= 0 /\ len < 128 THEN <<len>>
    ELSE IF len >= 0 /\ len < 16384 THEN <<BitOrNat(Shr(len, 8), 128), BitAnd(len, 255)>>
    ELSE IF len >= 0 /\ len < 2097152
        THEN <<BitOrNat(Shr(len, 16), 192), BitAnd(Shr(len, 8), 255), BitAnd(len, 255)>>
    ELSE IF len >= 0 /\ len < 268435456
        THEN <<BitOrNat(Shr(len, 24), 224), BitAnd(Shr(len, 16), 255),
               BitAnd(Shr(len, 8), 255), BitAnd(len, 255)>>
    ELSE <<240, BitAnd(Shr(len, 24), 255), BitAnd(Shr(len, 16), 255),
           BitAnd(Shr(len, 8), 255), BitAnd(len, 255)>>

encodeWord(word) ==
    LET wordBuf == Utf8Encode(word)
    IN  encodeLength(Len(wordBuf)) \o wordBuf

\* the null that decodeLength returns
Null ==
    [null |-> TRUE]

decodeLength(buffer, offset) ==
    LET first == At(buffer, offset)
        b1    == OrZero(At(buffer, offset + 1))
        b2    == OrZero(At(buffer, offset + 2))
        b3    == OrZero(At(buffer, offset + 3))
        b4    == OrZero(At(buffer, offset + 4))
    IN  IF offset >= Len(buffer) THEN Null
        ELSE IF first = -1 \/ first = 0 THEN [length |-> 0, bytes |-> 1]
        ELSE IF BitAnd(first, 128) = 0 THEN [length |-> first, bytes |-> 1]
        ELSE IF BitAnd(first, 192) = 128
            THEN [length |-> BitOr(Shl(BitAnd(first, 63), 8), b1), bytes |-> 2]
        ELSE IF BitAnd(first, 224) = 192
            THEN [length |-> BitOr(BitOr(Shl(BitAnd(first, 31), 16), Shl(b1, 8)), b2),
                  bytes |-> 3]
        ELSE IF BitAnd(first, 240) = 224
            THEN [length |-> BitOr(BitOr(BitOr(Shl(BitAnd(first, 15), 24), Shl(b1, 16)),
                                         Shl(b2, 8)), b3),
                  bytes |-> 4]
        ELSE IF first = 240
            THEN [length |-> BitOr(BitOr(BitOr(Shl(b1, 24), Shl(b2, 16)), Shl(b3, 8)), b4),
                  bytes |-> 5]
        ELSE Null

RECURSIVE ParseLoop(_, _, _, _)
\* a turn of the inner loop of parseSentences from the test of lenInfo on,
\* lenInfo being what decodeLength(buffer, offset) returned
ParseWord(buffer, offset, sentence, sentences, lenInfo) ==
    IF lenInfo = Null
    THEN [sentences |-> sentences, rest |-> SliceFrom(buffer, offset)]
    ELSE LET off == offset + lenInfo.bytes
         IN  IF lenInfo.length = 0
             THEN ParseLoop(buffer, off, <<>>,
                            IF Len(sentence) > 0 THEN Append(sentences, sentence)
                            ELSE sentences)
             ELSE IF off + lenInfo.length > Len(buffer)
             THEN [sentences |-> sentences,
                   rest |-> SliceFrom(buffer, off - lenInfo.bytes)]
             ELSE ParseLoop(buffer, off + lenInfo.length,
                            Append(sentence,
                                   Utf8Decode(Slice(buffer, off, off + lenInfo.length))),
                            sentences)

\* the two nested loops of parseSentences, from the head of the inner one:
\* `sentence` holds the words of the sentence being read, `sentences` the output
ParseLoop(buffer, offset, sentence, sentences) ==
    IF ~(offset < Len(buffer))
    THEN [sentences |-> IF Len(sentence) > 0 THEN Append(sentences, sentence)
                        ELSE sentences,
          rest |-> <<>>]
    ELSE ParseWord(buffer, offset, sentence, sentences, decodeLength(buffer, offset))

parseSentences(buffer) ==
    ParseLoop(buffer, 0, <<>>, <<>>)


(***************************************************************************)
(* Record projector.  A record is a function from keys to values.          *)
(***************************************************************************)
ReTag ==
    <<33, 114, 101>>                            \* "!re"

DoneTag ==
    <<33, 100, 111, 110, 101>>                  \* "!done"

TrapTag ==
    <<33, 116, 114, 97, 112>>                   \* "!trap"

FatalTag ==
    <<33, 102, 97, 116, 97, 108>>               \* "!fatal"

EqSign ==
    <<61>>                                      \* "="

ProtoKey ==
    <<95, 95, 112, 114, 111, 116, 111, 95, 95>>     \* "__proto__"

\* acc[k] = v on an object made by `{}`, v a string: the key "__proto__" is
\* the accessor of Object.prototype, whose setter ignores a string and makes
\* no own property
SetProperty(acc, k, v) ==
    IF k = ProtoKey THEN acc
    ELSE [x \in (DOMAIN acc) \cup {k} |-> IF x = k THEN v ELSE acc[x]]

\* the reducer of toObjects: acc[k] = v.join("=") for an item "=k=v..."
AttrInto(acc, item) ==
    IF StartsWith(item, EqSign)
    THEN LET parts == Split(SliceFrom(item, 1), 61)
             k     == Head(parts)
             v     == Join(Tail(parts), EqSign)
         IN  SetProperty(acc, k, v)
    ELSE acc

RECURSIVE Reduce(_, _)
Reduce(items, acc) ==
    IF items = <<>> THEN acc ELSE Reduce(Tail(items), AttrInto(acc, Head(items)))

RECURSIVE toObjects(_)
toObjects(sentences) ==
    IF sentences = <<>> THEN <<>>
    ELSE IF Head(sentences)[1] = ReTag
    THEN <<Reduce(Tail(Head(sentences)), <<>>)>> \o toObjects(Tail(sentences))
    ELSE toObjects(Tail(sentences))

(***************************************************************************)
(* Results.                                                                *)
(***************************************************************************)
\* an absent `error` field
NoError ==
    [code |-> "undefined", message |-> <<>>]

Success(data) ==
    [status |-> TRUE, data |-> data]

Failure(message, error) ==
    [status |-> FALSE, message |-> message, error |-> error]

MsgNotConnected ==
    <<78, 111, 116, 32, 99, 111, 110, 110, 101, 99, 116, 101, 100>>

MsgClosed ==
    <<67, 111, 110, 110, 101, 99, 116, 105, 111, 110, 32, 99, 108, 111, 115, 101, 100>>

MsgEnded ==
    <<67, 111, 110, 110, 101, 99, 116, 105, 111, 110, 32, 101, 110, 100, 101, 100>>

MsgTrap ==
    <<84, 114, 97, 112, 32, 101, 114, 114, 111, 114>>

MsgFatalPrefix ==
    <<70, 97, 116, 97, 108, 32, 101, 114, 114, 111, 114, 58, 32>>

MessagePrefix ==
    <<61, 109, 101, 115, 115, 97, 103, 101, 61>>    \* "=message="

(***************************************************************************)
(* One runCommand invocation: the closure state of the promise executor.   *)
(*   st         "unused", "pending" (promise not settled) or "resolved"    *)
(*   listeners  which of onData/onError/onClose/onEnd are on the socket    *)
(*   resolves   how many times resolve() was called                        *)
(*   atResolve  the listeners still installed at the first resolve() call  *)
(*   by         what resolved it                                           *)
(*   reply      the sentences the peer sent in answer to its request       *)
(*   req        the place of its request in `written`, 0 when it wrote none *)
(*   closedOn   close() was called while it was pending                    *)
(*   shared     another invocation was pending at some time while it was   *)
(***************************************************************************)
SocketEvents ==
    {"data", "error", "close", "end"}

NoResult ==
    Failure(<<>>, NoError)

Unused ==
    [st |-> "unused", listeners |-> {}, readBuffer |-> <<>>, responses |-> <<>>,
     result |-> NoResult, resolves |-> 0, atResolve |-> {}, by |-> "none",
     answered |-> FALSE, reply |-> <<>>, req |-> 0, closedOn |-> FALSE,
     shared |-> FALSE]

\* a cleanup() that leaves onData on the socket
cleanupKeepsData(c) ==
    [c EXCEPT !.listeners = @ \cap {"data"}]

\* cleanup(): s.off for the four listeners
cleanup(c) ==
    [c EXCEPT !.listeners = {}]

\* resolve(result): the first call settles the promise, later calls are ignored
resolve(c, result, by) ==
    [c EXCEPT !.st = "resolved",
              !.result = IF c.resolves = 0 THEN result ELSE @,
              !.atResolve = IF c.resolves = 0 THEN c.listeners ELSE @,
              !.by = IF c.resolves = 0 THEN by ELSE @,
              !.resolves = @ + 1]

\* sent.find((x) => x.startsWith("=message="))?.slice(9) ?? "Trap error"
TrapMessage(sent) ==
    LET hits == {i \in 1..Len(sent) : StartsWith(sent[i], MessagePrefix)}
    IN  IF hits = {} THEN MsgTrap
        ELSE SliceFrom(sent[CHOOSE i \in hits : \A j \in hits : i <= j], 9)

\* "Fatal error: " + sent.slice(1).join(" ")
FatalMessage(sent) ==
    MsgFatalPrefix \o Join(Tail(sent), <<32>>)

RECURSIVE ForSentences(_, _)
\* the for loop of onData over the parsed sentences
ForSentences(c, sentences) ==
    IF sentences = <<>> THEN c
    ELSE LET sent == Head(sentences)
             c2   == [c EXCEPT !.responses = Append(@, sent)]
         IN  IF sent[1] = TrapTag
             THEN resolve(cleanup(c), Failure(TrapMessage(sent), NoError), "data")
             ELSE IF sent[1] = FatalTag
             THEN resolve(cleanup(c), Failure(FatalMessage(sent), NoError), "data")
             ELSE IF sent[1] = DoneTag
             THEN resolve(cleanup(c2), Success(toObjects(c2.responses)), "data")
             ELSE ForSentences(c2, Tail(sentences))

onData(c, chunk) ==
    LET parsed == parseSentences(c.readBuffer \o chunk)
    IN  ForSentences([c EXCEPT !.readBuffer = parsed.rest], parsed.sentences)

onError(c, err) ==
    resolve(cleanup(c), Failure(err.message, err), "error")

\* an onClose that reports the end of the stream
onCloseAsEnd(c) ==
    resolve(cleanup(c), Failure(MsgEnded, NoError), "close")

onClose(c) ==
    resolve(cleanup(c), Failure(MsgClosed, NoError), "close")

onEnd(c) ==
    resolve(cleanup(c), Failure(MsgEnded, NoError), "end")


(***************************************************************************)
(* MD5 (RFC 1321), as createHash("md5").update(data).digest() computes it. *)
(* A 32-bit word is a pair <<high half, low half>> of 16-bit numbers.      *)
(***************************************************************************)
W16 ==
    65536

And32(x, y) ==
    <<BitAnd(x[1], y[1]), BitAnd(x[2], y[2])>>

Or32(x, y) ==
    <<x[1] + y[1] - BitAnd(x[1], y[1]), x[2] + y[2] - BitAnd(x[2], y[2])>>

Xor32(x, y) ==
    <<x[1] + y[1] - 2 * BitAnd(x[1], y[1]), x[2] + y[2] - 2 * BitAnd(x[2], y[2])>>

Not32(x) ==
    <<W16 - 1 - x[1], W16 - 1 - x[2]>>

Add32(x, y) ==
    LET lo == x[2] + y[2]
    IN  <<(x[1] + y[1] + (lo \div W16)) % W16, lo % W16>>

\* rotate left by 0 < s < 32
Rotl32(x, s) ==
    LET y == IF s >= 16 THEN <<x[2], x[1]>> ELSE x
        r == s % 16
    IN  IF r = 0 THEN y
        ELSE <<((y[1] * Pow2(r)) % W16) + (y[2] \div Pow2(16 - r)),
               ((y[2] * Pow2(r)) % W16) + (y[1] \div Pow2(16 - r))>>

Md5K ==
    <<
      <<55146, 42104>>, <<59591, 46934>>, <<9248, 28891>>, <<49597, 52974>>,
      <<62844, 4015>>, <<18311, 50730>>, <<43056, 17939>>, <<64838, 38145>>,
      <<27008, 39128>>, <<35652, 63407>>, <<65535, 23473>>, <<35164, 55230>>,
      <<27536, 4386>>, <<64920, 29075>>, <<42617, 17294>>, <<18868, 2081>>,
      <<63006, 9570>>, <<49216, 45888>>, <<9822, 23121>>, <<59830, 51114>>,
      <<54831, 4189>>, <<580, 5203>>, <<55457, 59009>>, <<59347, 64456>>,
      <<8673, 52710>>, <<49975, 2006>>, <<62677, 3463>>, <<17754, 5357>>,
      <<43491, 59653>>, <<64751, 41976>>, <<26479, 729>>, <<36138, 19594>>,
      <<65530, 14658>>, <<34673, 63105>>, <<28061, 24866>>, <<64997, 14348>>,
      <<42174, 59972>>, <<19422, 53161>>, <<63163, 19296>>, <<48831, 48240>>,
      <<10395, 32454>>, <<60065, 10234>>, <<54511, 12421>>, <<1160, 7429>>,
      <<55764, 53305>>, <<59099, 39397>>, <<8098, 31992>>, <<50348, 22117>>,
      <<62505, 8772>>, <<17194, 65431>>, <<43924, 9127>>, <<64659, 41017>>,
      <<25947, 22979>>, <<36620, 52370>>, <<65519, 62589>>, <<34180, 24017>>,
      <<28584, 32335>>, <<65068, 59104>>, <<41729, 17172>>, <<19976, 4513>>,
      <<63315, 32386>>, <<48442, 62005>>, <<10967, 53947>>, <<60294, 54161>>
    >>

Md5S ==
    <<
      7, 12, 17, 22, 7, 12, 17, 22, 7, 12, 17, 22, 7, 12, 17, 22,
      5, 9, 14, 20, 5, 9, 14, 20, 5, 9, 14, 20, 5, 9, 14, 20,
      4, 11, 16, 23, 4, 11, 16, 23, 4, 11, 16, 23, 4, 11, 16, 23,
      6, 10, 15, 21, 6, 10, 15, 21, 6, 10, 15, 21, 6, 10, 15, 21
    >>

\* the padded message: data, 0x80, zeros up to 56 mod 64, the bit length (64 bits, LE)
Md5Pad(data) ==
    LET n     == Len(data)
        zeros == (119 - (n % 64)) % 64
        bits  == n * 8
    IN  data \o <<128>> \o [i \in 1..zeros |-> 0]
             \o <<bits % 256, (bits \div 256) % 256, (bits \div 65536) % 256,
                  bits \div 16777216, 0, 0, 0, 0>>

\* word g (0..15) of a 64-byte block, little-endian
Md5Word(block, g) ==
    <<block[4 * g + 4] * 256 + block[4 * g + 3], block[4 * g + 2] * 256 + block[4 * g + 1]>>

\* round i (0..63) on the state v = <<A, B, C, D>>
Md5Round(block, i, v) ==
    LET A == v[1]
        B == v[2]
        C == v[3]
        D == v[4]
        F == IF i < 16 THEN Or32(And32(B, C), And32(Not32(B), D))
             ELSE IF i < 32 THEN Or32(And32(D, B), And32(Not32(D), C))
             ELSE IF i < 48 THEN Xor32(Xor32(B, C), D)
             ELSE Xor32(C, Or32(B, Not32(D)))
        g == IF i < 16 THEN i
             ELSE IF i < 32 THEN (5 * i + 1) % 16
             ELSE IF i < 48 THEN (3 * i + 5) % 16
             ELSE (7 * i) % 16
        T == Add32(Add32(Add32(F, A), Md5K[i + 1]), Md5Word(block, g))
    IN  <<D, Add32(B, Rotl32(T, Md5S[i + 1])), B, C>>

RECURSIVE Md5Rounds(_, _, _, _)
\* rounds lo..hi-1 in order on the state v, the first half of them and then
\* the second (the test of Len(v) makes the evaluation of v strict: a half is
\* finished before the next one starts)
Md5Rounds(block, lo, hi, v) ==
    IF Len(v) # 4 THEN v
    ELSE IF hi = lo + 1 THEN Md5Round(block, lo, v)
    ELSE LET mid == (lo + hi) \div 2
         IN  Md5Rounds(block, mid, hi, Md5Rounds(block, lo, mid, v))

\* the state h after a block whose rounds gave v
Md5Add(h, v) ==
    <<Add32(h[1], v[1]), Add32(h[2], v[2]), Add32(h[3], v[3]), Add32(h[4], v[4])>>

RECURSIVE Md5Blocks(_, _)
Md5Blocks(padded, h) ==
    IF padded = <<>> THEN h
    ELSE Md5Blocks(SubSeq(padded, 65, Len(padded)),
                   Md5Add(h, Md5Rounds(SubSeq(padded, 1, 64), 0, 64, h)))

\* the 16 digest bytes
Md5Bytes(h) ==
    ConcatAll([j \in 1..4 |-> <<h[j][2] % 256, h[j][2] \div 256,
                                 h[j][1] % 256, h[j][1] \div 256>>])

Md5(data) ==
    Md5Bytes(Md5Blocks(Md5Pad(data),
                       <<<<26437, 8961>>, <<61389, 43913>>, <<39098, 56574>>, <<4146, 21622>>>>))


(***************************************************************************)
(* Login helpers.                                                          *)
(***************************************************************************)
\* the value of a hexadecimal digit, -1 for any other character
HexVal(ch) ==
    IF ch >= 48 /\ ch <= 57 THEN ch - 48
    ELSE IF ch >= 97 /\ ch <= 102 THEN ch - 87
    ELSE IF ch >= 65 /\ ch <= 70 THEN ch - 55
    ELSE -1

\* parseInt(s, 16) for a string of one or two characters without white space,
\* sign or "0x" prefix: the value of its longest prefix of hex digits, -1 for NaN
ParseInt16(s) ==
    IF Len(s) = 0 \/ HexVal(s[1]) = -1 THEN -1
    ELSE IF Len(s) = 1 \/ HexVal(s[2]) = -1 THEN HexVal(s[1])
    ELSE 16 * HexVal(s[1]) + HexVal(s[2])

RECURSIVE Pairs(_)
\* ret.match(/.{1,2}/g): the string cut into pieces of two characters (the last
\* of one, when the length is odd)
Pairs(s) ==
    IF Len(s) <= 2 THEN (IF s = <<>> THEN <<>> ELSE <<s>>)
    ELSE <<SubSeq(s, 1, 2)>> \o Pairs(SubSeq(s, 3, Len(s)))

\* new Uint8Array(ret.match(/.{1,2}/g)?.map((byte) => parseInt(byte, 16)) || []):
\* NaN is stored as 0
ChallengeBytes(ret) ==
    LET pieces == Pairs(ret)
    IN  [i \in 1..Len(pieces) |->
            IF ParseInt16(pieces[i]) = -1 THEN 0 ELSE ParseInt16(pieces[i])]

HexDigit(d) ==
    IF d < 10 THEN 48 + d ELSE 87 + d

\* b.toString(16).padStart(2, "0") for a byte
HexByte(b) ==
    LET str == IF b < 16 THEN <<HexDigit(b)>> ELSE <<HexDigit(b \div 16), HexDigit(b % 16)>>
    IN  IF Len(str) < 2 THEN <<48>> \o str ELSE str

\* the response attribute of the second /login (source lines 387-400)
\* Array.from(digest).map((b) => b.toString(16).padStart(2, "0")).join("")
HexOf(digest) ==
    ConcatAll([i \in 1..Len(digest) |-> HexByte(digest[i])])

LoginResponse(password, ret) ==
    LET challenge     == ChallengeBytes(ret)
        passwordBytes == Utf8Encode(password)
        data          == <<0>> \o passwordBytes \o challenge
    IN  <<48, 48>> \o HexOf(Md5(data))

RetKey ==
    <<114, 101, 116>>                           \* "ret"

\* a lookup that finds a challenge in every reply
FindRetAlways(data) ==
    <<48, 97>>

\* reply.data.flatMap((r) => Object.entries(r)).find(([k]) => k === "ret")?.[1],
\* <<>> standing for undefined as for the empty string (both are falsy)
FindRet(data) ==
    LET hits == {i \in 1..Len(data) : RetKey \in DOMAIN data[i]}
    IN  IF hits = {} THEN <<>>
        ELSE data[CHOOSE i \in hits : \A j \in hits : i <= j][RetKey]

LoginPath ==
    <<47, 108, 111, 103, 105, 110>>             \* "/login"

NameKey ==
    <<110, 97, 109, 101>>                       \* "name"

PasswordKey ==
    <<112, 97, 115, 115, 119, 111, 114, 100>>   \* "password"

ResponseKey ==
    <<114, 101, 115, 112, 111, 110, 115, 101>>  \* "response"

\* the prefix of the message of an exception caught in login (source line 412)
LoginFailedPrefix ==
    <<76, 111, 103, 105, 110, 32, 102, 97, 105, 108, 101, 100, 58, 32>>    \* "Login failed: "

\* the Result of login on success: { status: true, data: undefined }
LoginOk ==
    [status |-> TRUE, data |-> "undefined"]


(***************************************************************************)
(* The emitter (createEmitter, source lines 45-82).  `listeners` is a Map  *)
(* from event name to a Set of functions.  A Set keeps its entries in      *)
(* insertion order; delete empties an entry's slot and an iteration in     *)
(* progress skips emptied slots and reaches entries appended meanwhile.    *)
(* The state e that the operations pass along holds the Map (`map`: the    *)
(* index in `heap` of the Set of each event, 0 for no entry), the Sets     *)
(* (`heap`), the number of once wrappers created, and the record of what   *)
(* ran: `calls`, `emits`, the exception in flight (`thrown`), the depth of *)
(* nested emits and, per event and function, the number of on calls since  *)
(* the last off (`regs`).                                                  *)
(***************************************************************************)
\* the events of the emitter model: the two that close() emits
EmEvents ==
    {"close", "error"}

\* the functions a caller passes to on, once and off, named by what they do
\* when called: nothing, throw, emit the same event again (when not itself
\* called from such an emit), off(event, listener1), on(event, listener2)
Fns ==
    {"listener1", "listener2", "throws", "emitsAgain", "removes1", "adds2"}

\* a function value: fn itself (wrapper = 0) or the wrapper-th wrapper that
\* once created, around fn
Fn(name) ==
    [fn |-> name, wrapper |-> 0]

\* an emptied slot of a Set
Empty ==
    [fn |-> "", wrapper |-> 0]

\* the Error a listener throws
ListenerError ==
    [code |-> "Error", message |-> <<98, 111, 111, 109>>]    \* "boom"

\* emit called with no arguments
NoArgs ==
    [code |-> "none", message |-> <<>>]

\* the arguments of emit("test", "hello") (src/unnamed/part_000, lines 17-21)
HelloArgs ==
    [code |-> "args", message |-> <<104, 101, 108, 108, 111>>]

\* what emit is called with from outside
EmArgs ==
    {NoArgs, HelloArgs}

SetHas(set, fn) ==
    \E i \in 1..Len(set) : set[i] = fn

SetAddAgain(set, fn) ==
    Append(set, fn)

SetAddFirst(set, fn) ==
    IF SetHas(set, fn) THEN set ELSE <<fn>> \o set

\* Set.prototype.add: a value the Set holds is not added again
SetAdd(set, fn) ==
    IF SetHas(set, fn) THEN set ELSE Append(set, fn)

SetDelete(set, fn) ==
    [i \in 1..Len(set) |-> IF set[i] = fn THEN Empty ELSE set[i]]

SetSize(set) ==
    Cardinality({i \in 1..Len(set) : set[i] # Empty})

\* the entries of a Set, in iteration order
SetEntries(set) ==
    SelectSeq(set, LAMBDA x : x # Empty)

\* on called with fn, or with a wrapper that once made around fn
CountOn(e, event, fn) ==
    IF fn.wrapper = 0
    THEN [e EXCEPT !.regs[event][fn.fn] = @ + 1, !.offed[event][fn.fn] = FALSE]
    ELSE [e EXCEPT !.offed[event][fn.fn] = FALSE]

\* off called with fn from outside or by a listener; a wrapper that takes
\* itself off is not such a call
CountOff(e, event, fn) ==
    IF fn.wrapper = 0
    THEN [e EXCEPT !.regs[event][fn.fn] = 0, !.offed[event][fn.fn] = TRUE]
    ELSE e

\* on(event, fn) (source lines 48-56)
on(e, event, fn) ==
    LET id == e.map[event]
        c  == CountOn(e, event, fn)
    IN  IF id = 0
        THEN [c EXCEPT !.heap = Append(@, <<fn>>), !.map[event] = Len(e.heap) + 1]
        ELSE [c EXCEPT !.heap[id] = SetAdd(@, fn)]

\* once(event, fn) (source lines 58-64): a new wrapper on every call
once(e, event, fn) ==
    on([e EXCEPT !.wrappers = @ + 1], event, [fn |-> fn.fn, wrapper |-> e.wrappers + 1])

\* off over an array, splice(indexOf(fn), 1): an index of -1 removes the last
offSplices(e, event, fn) ==
    LET id == e.map[event]
        c  == CountOff(e, event, fn)
    IN  IF id = 0 THEN c
        ELSE LET had  == SetEntries(e.heap[id])
                 gone == IF SetHas(had, fn) THEN fn ELSE had[Len(had)]
                 set  == SetDelete(e.heap[id], gone)
             IN  [c EXCEPT !.heap[id] = set,
                           !.map[event] = IF SetSize(set) = 0 THEN 0 ELSE id]

\* off(event, fn) (source lines 66-73)
off(e, event, fn) ==
    LET id == e.map[event]
        c  == CountOff(e, event, fn)
    IN  IF id = 0 THEN c
        ELSE LET set == SetDelete(e.heap[id], fn)
             IN  [c EXCEPT !.heap[id] = set,
                           !.map[event] = IF SetSize(set) = 0 THEN 0 ELSE id]

\* the Set of an event as emit would find it
Registered(e, event) ==
    IF e.map[event] = 0 THEN <<>> ELSE SetEntries(e.heap[e.map[event]])

RECURSIVE emit(_, _, _)
RECURSIVE EmitLoop(_, _, _, _, _, _)

\* the body of the function named name, called with args by an emit of event
Body(e, name, event, args) ==
    IF name = "throws" THEN [e EXCEPT !.thrown = ListenerError]
    ELSE IF name = "emitsAgain"
    THEN IF e.depth = 0
         THEN [emit([e EXCEPT !.depth = 1], event, args) EXCEPT !.depth = 0]
         ELSE e
    ELSE IF name = "removes1" THEN off(e, event, Fn("listener1"))
    ELSE IF name = "adds2" THEN on(e, event, Fn("listener2"))
    ELSE e

InvokeKeepsWrapper(e, fn, event, args, n) ==
    Body([e EXCEPT !.calls = Append(@, [fn |-> fn.fn, wrapper |-> fn.wrapper,
                                        event |-> event, args |-> args, emit |-> n,
                                        offed |-> e.offed[event][fn.fn]])],
         fn.fn, event, args)

\* fn(...args) of emit number n; a wrapper removes itself, then calls its fn
\* (source lines 59-62)
Invoke(e, fn, event, args, n) ==
    LET e1 == IF fn.wrapper > 0 THEN off(e, event, fn) ELSE e
        e2 == [e1 EXCEPT !.calls = Append(@, [fn |-> fn.fn, wrapper |-> fn.wrapper,
                                              event |-> event, args |-> args,
                                              emit |-> n,
                                              offed |-> e.offed[event][fn.fn]])]
    IN  Body(e2, fn.fn, event, args)

\* `for (const fn of set) fn(...args)` from slot i of the Set id on
EmitLoop(e, id, i, event, args, n) ==
    IF i > Len(e.heap[id]) THEN e
    ELSE IF e.heap[id][i] = Empty THEN EmitLoop(e, id, i + 1, event, args, n)
    ELSE LET r == Invoke(e, e.heap[id][i], event, args, n)
         IN  IF r.thrown # NoError
             THEN [r EXCEPT !.emits[n].threw = TRUE]
             ELSE EmitLoop(r, id, i + 1, event, args, n)

\* emit(event, ...args) (source lines 75-78)
emit(e, event, args) ==
    LET n  == Len(e.emits) + 1
        id == e.map[event]
        e1 == [e EXCEPT !.emits = Append(@, [event |-> event, args |-> args,
                                             depth |-> e.depth,
                                             threw |-> FALSE, regs |-> e.regs,
                                             after |-> e.regs,
                                             registered |-> Registered(e, event)])]
        r  == IF id = 0 THEN e1 ELSE EmitLoop(e1, id, 1, event, args, n)
    IN  [r EXCEPT !.emits[n].after = r.regs]

\* the emitter between two calls: the Map as Sets of entries, no slot emptied;
\* the Set of "close" is heap[1], that of "error" heap[2]
Running(ls, ws, rs, os) ==
    [map      |-> [close |-> IF ls["close"] = <<>> THEN 0 ELSE 1,
                   error |-> IF ls["error"] = <<>> THEN 0 ELSE 2],
     heap     |-> <<ls["close"], ls["error"]>>,
     wrappers |-> ws,
     regs     |-> rs,
     offed    |-> os,
     calls    |-> <<>>,
     emits    |-> <<>>,
     thrown   |-> NoError,
     depth    |-> 0]

\* the Map of e, by event: the entries of its Set, <<>> when it has no entry
Listeners(e) ==
    [ev \in EmEvents |-> Registered(e, ev)]

\* close() on the emitter state e (source lines 555-568): the emits it
\* makes and what it returns, or the exception that leaves it
close(e) ==
    LET tried == emit(e, "close", NoArgs)
    IN  IF tried.thrown = NoError
        THEN [e |-> tried, threw |-> NoError, result |-> Success("undefined")]
        ELSE LET err    == tried.thrown
                 caught == emit([tried EXCEPT !.thrown = NoError], "error", err)
             IN  IF caught.thrown = NoError
                 THEN [e |-> caught, threw |-> NoError,
                       result |-> Failure(err.message, err)]
                 ELSE [e |-> [caught EXCEPT !.thrown = NoError], threw |-> caught.thrown,
                       result |-> NoResult]


(***************************************************************************)
(* The client over its socket.                                             *)
(***************************************************************************)
VARIABLES
    socket,      \* the client's `socket` variable: "null" or "sock"
    sockState,   \* the Node socket: "none", "connecting", "open", "ended" (the
                 \* peer's FIN was read), "closing" (destroyed, 'close' not yet
                 \* emitted) or "closed"
    flowing,     \* the socket emits 'data' (a 'data' listener was added once)
    connectSt,   \* the promise of connect(): "idle", "pending", "ok" or "failed"
    timedOut,    \* the socket emitted 'timeout' while it was connecting
    wire,        \* the segments (byte arrays) the peer has sent that no 'data'
                 \* event has carried yet
    written,     \* the byte arrays given to s.write, in order
    unanswered,  \* invocations whose request the peer holds and has not answered
    inv,         \* the runCommand invocations, in call order
    login,       \* the login() call in progress or finished
    emitted,     \* how often events.emit was called, per event name
    evlog,       \* the 'error', 'end' and 'close' events the socket has emitted
    cuts,        \* how many 'data' events carried only a part of a segment
    closes,      \* how many times close() was called
    pIn,         \* parser model: the input B and whether it ends a sentence
    pLeft,       \* parser model: the bytes of B not yet fed
    pRest,       \* parser model: the residual of the last parseSentences call
    pOut,        \* parser model: the sentences returned so far, in order
    cIn,         \* codec model: the operation and its input
    cOut,        \* codec model: the outcome of the operation
    listeners,   \* emitter: the Map `listeners`, by event the entries of its Set in
                 \* insertion order, <<>> for no entry
    wrappers,    \* emitter: how many wrappers once has created
    regs,        \* emitter: per event and function, the on calls since the last off
    call,        \* emitter: the last call made from outside and what ran in it
    fired,       \* emitter: how often each wrapper that once created was called
    offed        \* emitter: per event and function, off was called with it and neither
                 \* on nor once since

vars ==
    <<socket, sockState, flowing, connectSt, timedOut, wire, written, unanswered, inv,
      login, emitted, evlog, cuts, closes, pIn, pLeft, pRest, pOut, cIn, cOut,
      listeners, wrappers, regs, call, fired, offed>>

clientVars ==
    <<socket, sockState, flowing, connectSt, timedOut, wire, written, unanswered, inv,
      login, emitted, evlog, cuts, closes>>

parserVars ==
    <<pIn, pLeft, pRest, pOut>>

codecVars ==
    <<cIn, cOut>>

emitterVars ==
    <<listeners, wrappers, regs, call, fired, offed>>

Cmds ==
    1..MaxCmds

\* the index of the next invocation, 0 when the bound is reached
NextFree(iv) ==
    IF \A i \in Cmds : iv[i].st # "unused" THEN 0
    ELSE CHOOSE i \in Cmds : iv[i].st = "unused" /\ \A j \in 1..(i - 1) : iv[j].st # "unused"

\* a property key that is an array index: the canonical decimal form of an
\* integer (no sign, no leading zero)
IsIndexKey(k) ==
    /\ k # <<>>
    /\ \A i \in 1..Len(k) : k[i] >= 48 /\ k[i] <= 57
    /\ k[1] = 48 => Len(k) = 1

RECURSIVE IndexValue(_)
IndexValue(k) ==
    IF k = <<>> THEN 0
    ELSE 10 * IndexValue(SubSeq(k, 1, Len(k) - 1)) + (k[Len(k)] - 48)

RECURSIVE Ascending(_)
\* entries with index keys, in ascending order of their keys
Ascending(entries) ==
    IF entries = <<>> THEN <<>>
    ELSE LET m == CHOOSE i \in 1..Len(entries) :
                      \A j \in 1..Len(entries) :
                          IndexValue(entries[i][1]) <= IndexValue(entries[j][1])
         IN  <<entries[m]>>
                 \o Ascending(SubSeq(entries, 1, m - 1) \o SubSeq(entries, m + 1, Len(entries)))

\* an Object.entries that hands every entry out in insertion order
InsertionEntries(params) ==
    params

\* Object.entries(params), for params given as its entries in insertion order:
\* own properties with index keys come first, in ascending order, then the
\* other string keys in insertion order
ObjectEntries(params) ==
    Ascending(SelectSeq(params, LAMBDA p : IsIndexKey(p[1])))
        \o SelectSeq(params, LAMBDA p : ~IsIndexKey(p[1]))

\* the request sentence of runCommand (source lines 464-471); params is a
\* sequence of <<key, value>> pairs in insertion order
Request(cmd, params) ==
    LET entries == ObjectEntries(params)
        parts   == <<cmd>> \o [i \in 1..Len(entries) |->
                                  EqSign \o entries[i][1] \o EqSign \o entries[i][2]]
    IN  ConcatAll([i \in 1..Len(parts) |-> encodeWord(parts[i])]) \o <<0>>

\* runCommand(cmd, params) on the client state cs = [inv, written, unanswered,
\* flowing, login], with the socket in state ss.  A write on a socket that is
\* neither connecting nor open never reaches the peer.
runCommand(cs, ss, cmd, params) ==
    LET i == NextFree(cs.inv)
    IN  IF socket = "null"
        THEN [cs EXCEPT !.inv[i] = resolve([Unused EXCEPT !.st = "pending"],
                                           Failure(MsgNotConnected, NoError), "immediate")]
        ELSE [cs EXCEPT !.inv = [j \in Cmds |->
                                    IF j = i
                                    THEN [Unused EXCEPT
                                             !.st = "pending",
                                             !.listeners = SocketEvents,
                                             !.req = Len(cs.written) + 1,
                                             !.shared = \E k \in Cmds :
                                                           cs.inv[k].st = "pending"]
                                    ELSE IF cs.inv[j].st = "pending"
                                    THEN [cs.inv[j] EXCEPT !.shared = TRUE]
                                    ELSE cs.inv[j]],
                        !.flowing = TRUE,
                        !.written = Append(@, Request(cmd, params)),
                        !.unanswered = IF ss \in {"connecting", "open"}
                                       THEN Append(@, i) ELSE @]

NoLogin ==
    [pc |-> "idle", cmd1 |-> 0, cmd2 |-> 0, user |-> <<>>, password |-> <<>>,
     result |-> NoResult]

\* login(user, password) up to its first await (source lines 375-376)
loginStart(cs, ss, user, password) ==
    LET i   == NextFree(cs.inv)
        cs1 == runCommand(cs, ss, LoginPath,
                          <<<<NameKey, user>>, <<PasswordKey, password>>>>)
    IN  [cs1 EXCEPT !.login = [pc |-> "await1", cmd1 |-> i, cmd2 |-> 0, user |-> user,
                               password |-> password, result |-> NoResult]]

\* a propagation that leaves the error behind
propagateMessageOnly(reply) ==
    Failure(reply.message, NoError)

\* const { message, error } = reply; return { status: false, message, error }
\* (source lines 378-379 and 403-404)
propagate(reply) ==
    Failure(reply.message, reply.error)

\* login from its first await on (source lines 377-408)
loginAfterFirst(cs, ss) ==
    LET reply == cs.inv[cs.login.cmd1].result
    IN  IF ~reply.status
        THEN [cs EXCEPT !.login.pc = "done",
                        !.login.result = propagate(reply)]
        ELSE LET ret == FindRet(reply.data)
             IN  IF ret # <<>>
                 THEN LET response == LoginResponse(cs.login.password, ret)
                          j        == NextFree(cs.inv)
                          cs1      == runCommand(cs, ss, LoginPath,
                                                 <<<<NameKey, cs.login.user>>,
                                                   <<ResponseKey, response>>>>)
                      \* the response is computed before the command is issued
                      \* (the test of Len(response) makes its evaluation strict)
                      IN  IF Len(response) = 0 THEN cs
                          ELSE [cs1 EXCEPT !.login.pc = "await2", !.login.cmd2 = j]
                 ELSE [cs EXCEPT !.login.pc = "done", !.login.result = LoginOk]

\* a login that wraps the failure of its second command
loginAfterSecondPrefixed(cs) ==
    LET finalLoginRes == cs.inv[cs.login.cmd2].result
    IN  IF ~finalLoginRes.status
        THEN [cs EXCEPT !.login.pc = "done",
                        !.login.result = Failure(LoginFailedPrefix \o finalLoginRes.message,
                                                 finalLoginRes.error)]
        ELSE [cs EXCEPT !.login.pc = "done", !.login.result = LoginOk]

\* login from its second await on (source lines 402-406)
loginAfterSecond(cs) ==
    LET finalLoginRes == cs.inv[cs.login.cmd2].result
    IN  IF ~finalLoginRes.status
        THEN [cs EXCEPT !.login.pc = "done",
                        !.login.result = propagate(finalLoginRes)]
        ELSE [cs EXCEPT !.login.pc = "done", !.login.result = LoginOk]

\* the promise jobs that run when a handler returns: login resumes when the
\* command it awaits has resolved
settle(cs, ss) ==
    IF cs.login.pc = "await1" /\ cs.inv[cs.login.cmd1].st = "resolved"
    THEN loginAfterFirst(cs, ss)
    ELSE IF cs.login.pc = "await2" /\ cs.inv[cs.login.cmd2].st = "resolved"
    THEN loginAfterSecond(cs)
    ELSE cs

Client ==
    [inv |-> inv, written |-> written, unanswered |-> unanswered, flowing |-> flowing,
     login |-> login]

\* the client state cs becomes the next state
Becomes(cs) ==
    /\ inv' = cs.inv
    /\ written' = cs.written
    /\ unanswered' = cs.unanswered
    /\ flowing' = cs.flowing
    /\ login' = cs.login

\* the handlers of socket event ev run on every invocation that listens to it
Deliver(iv, ev, arg) ==
    [i \in Cmds |->
        IF ev \in iv[i].listeners
        THEN IF ev = "data" THEN onData(iv[i], arg)
             ELSE IF ev = "error" THEN onError(iv[i], arg)
             ELSE IF ev = "close" THEN onClose(iv[i])
             ELSE onEnd(iv[i])
        ELSE iv[i]]

Bump(e, name) ==
    [e EXCEPT ![name] = @ + 1]


(***************************************************************************)
(* The environment: what the caller passes and what the peer sends.        *)
(***************************************************************************)
PrintPath ==
    <<47, 105, 110, 116, 101, 114, 102, 97, 99, 101, 47, 112, 114, 105, 110, 116>>      \* "/interface/print"

IdentityPath ==
    <<47, 115, 121, 115, 116, 101, 109, 47, 105, 100, 101, 110, 116, 105, 116, 121, 47, 112, 114, 105, 110, 116>>      \* "/system/identity/print"

UserAdmin ==
    <<97, 100, 109, 105, 110>>                    \* "admin"

PasswordSecret ==
    <<115, 101, 99, 114, 101, 116>>               \* "secret"

\* the Error objects a socket raises
Errors ==
    {[code |-> "ECONNRESET", message |-> <<114, 101, 97, 100, 32, 69, 67, 79, 78, 78, 82, 69, 83, 69, 84>>]}

SDone ==
    <<DoneTag>>

\* the replies of the peer in the client model, each a sequence of sentences
Replies ==
    { <<SDone>>,
      <<<<TrapTag, <<61, 109, 101, 115, 115, 97, 103, 101, 61, 110, 111>>>>, SDone>>,    \* !trap =message=no / !done
      <<<<FatalTag, <<120>>>>>>,                     \* !fatal x
      <<<<DoneTag, <<61, 114, 101, 116, 61, 48, 97>>>>>>,          \* !done =ret=0a
      <<<<ReTag, <<61, 114, 101, 116, 61, 48, 97>>>>, SDone>> }    \* !re =ret=0a / !done

EncodeSentence(sentence) ==
    ConcatAll([i \in 1..Len(sentence) |-> encodeWord(sentence[i])]) \o <<0>>

\* the length of the longest segment the peer sends
MaxSegment ==
    CHOOSE n \in 1..64 :
        /\ \E r \in Replies : \E i \in 1..Len(r) : Len(EncodeSentence(r[i])) = n
        /\ \A r \in Replies : \A i \in 1..Len(r) : Len(EncodeSentence(r[i])) <= n

\* the bytes of a reply on the wire
EncodeReply(reply) ==
    ConcatAll([i \in 1..Len(reply) |-> EncodeSentence(reply[i])])

(***************************************************************************)
(* Calls of the client's methods.  One socket per client: connect() is     *)
(* called once, and one login() runs at a time.                            *)
(***************************************************************************)
FreeCmds ==
    Cardinality({i \in Cmds : inv[i].st = "unused"})

\* connect(): net.connect or tls.connect returns the socket (source lines 326-337)
CallConnect ==
    /\ socket = "null"
    /\ connectSt = "idle"
    /\ timedOut = FALSE
    /\ socket' = "sock"
    /\ sockState' = "connecting"
    /\ connectSt' = "pending"
    /\ UNCHANGED <<flowing, wire, written, unanswered, inv, login, emitted, evlog, cuts, closes>>
    /\ UNCHANGED parserVars
    /\ UNCHANGED codecVars
    /\ UNCHANGED timedOut
    /\ UNCHANGED emitterVars

\* connect(): net.connect or tls.connect throws (source lines 338-350)
CallConnectThrows ==
    /\ socket = "null"
    /\ connectSt = "idle"
    /\ timedOut = FALSE
    /\ connectSt' = "failed"
    /\ emitted' = Bump(emitted, "error")
    /\ UNCHANGED <<socket, sockState, flowing, wire, written, unanswered, inv, login, evlog,
                   cuts, closes>>
    /\ UNCHANGED parserVars
    /\ UNCHANGED codecVars
    /\ UNCHANGED timedOut
    /\ UNCHANGED emitterVars

\* runCommand(cmd) called by the user of the client
CallRunCommand ==
    /\ FreeCmds > (IF login.pc = "await1" THEN 1 ELSE 0)
    /\ Becomes(runCommand(Client, sockState, PrintPath, <<>>))
    /\ UNCHANGED <<socket, sockState, connectSt, wire, emitted, evlog, cuts, closes>>
    /\ UNCHANGED parserVars
    /\ UNCHANGED codecVars
    /\ UNCHANGED timedOut
    /\ UNCHANGED emitterVars

\* getSystemIdentity() called by the user of the client (source lines 655-657)
CallGetSystemIdentity ==
    /\ FreeCmds > (IF login.pc = "await1" THEN 1 ELSE 0)
    /\ Becomes(runCommand(Client, sockState, IdentityPath, <<>>))
    /\ UNCHANGED <<socket, sockState, connectSt, wire, emitted, evlog, cuts, closes>>
    /\ UNCHANGED parserVars
    /\ UNCHANGED codecVars
    /\ UNCHANGED timedOut
    /\ UNCHANGED emitterVars

\* login(user, password) called by the user of the client
CallLogin ==
    /\ login.pc \in {"idle", "done"}
    /\ FreeCmds >= 2
    /\ Becomes(settle(loginStart(Client, sockState, UserAdmin, PasswordSecret), sockState))
    /\ UNCHANGED <<socket, sockState, connectSt, wire, emitted, evlog, cuts, closes>>
    /\ UNCHANGED parserVars
    /\ UNCHANGED codecVars
    /\ UNCHANGED timedOut
    /\ UNCHANGED emitterVars

\* close(): socket?.destroy(), then events.emit("close") (source lines 555-559)
CallClose ==
    /\ closes < MaxCloses
    /\ closes' = closes + 1
    /\ sockState' = IF sockState \in {"connecting", "open", "ended"} THEN "closing"
                    ELSE sockState
    /\ wire' = <<>>
    /\ emitted' = Bump(emitted, "close")
    /\ inv' = [i \in Cmds |-> IF inv[i].st = "pending"
                               THEN [inv[i] EXCEPT !.closedOn = TRUE] ELSE inv[i]]
    /\ UNCHANGED <<socket, flowing, connectSt, written, unanswered, login, evlog, cuts>>
    /\ UNCHANGED parserVars
    /\ UNCHANGED codecVars
    /\ UNCHANGED timedOut
    /\ UNCHANGED emitterVars

(***************************************************************************)
(* Events of the socket.  The listeners of connect() (source lines         *)
(* 331-337) were added first and run first; those of the invocations       *)
(* follow; then the promise jobs run.                                      *)
(***************************************************************************)
SockConnect ==
    /\ sockState = "connecting"
    /\ sockState' = "open"
    /\ connectSt' = "ok"
    /\ emitted' = Bump(emitted, "connect")
    /\ UNCHANGED <<socket, flowing, wire, written, unanswered, inv, login, evlog, cuts, closes>>
    /\ UNCHANGED parserVars
    /\ UNCHANGED codecVars
    /\ UNCHANGED timedOut
    /\ UNCHANGED emitterVars

\* the socket's 'timeout' event while it is connecting: the `timeout` option of
\* net.connect and tls.connect arms socket.setTimeout, whose expiry emits
\* 'timeout' and does nothing else; connect() adds no 'timeout' listener
\* (source lines 326-337)
SockTimeout ==
    /\ sockState = "connecting"
    /\ ~timedOut
    /\ timedOut' = TRUE
    /\ UNCHANGED <<socket, sockState, flowing, connectSt, wire, written, unanswered, inv,
                   login, emitted, evlog, cuts, closes>>
    /\ UNCHANGED parserVars
    /\ UNCHANGED codecVars
    /\ UNCHANGED emitterVars

SockError(err) ==
    /\ sockState \in {"connecting", "open", "ended"}
    /\ sockState' = "closing"
    /\ connectSt' = IF connectSt = "pending" THEN "failed" ELSE connectSt
    /\ emitted' = Bump(emitted, "error")
    /\ evlog' = Append(evlog, [type |-> "error", err |-> err])
    /\ wire' = <<>>
    /\ Becomes(settle([Client EXCEPT !.inv = Deliver(inv, "error", err)], "closing"))
    /\ UNCHANGED <<socket, cuts, closes>>
    /\ UNCHANGED parserVars
    /\ UNCHANGED codecVars
    /\ UNCHANGED timedOut
    /\ UNCHANGED emitterVars

\* the peer's FIN, read once every byte before it was read
SockEnd ==
    /\ sockState = "open"
    /\ wire = <<>>
    /\ sockState' = "ended"
    /\ emitted' = Bump(emitted, "end")
    /\ evlog' = Append(evlog, [type |-> "end", err |-> NoError])
    /\ Becomes(settle([Client EXCEPT !.inv = Deliver(inv, "end", <<>>)], "ended"))
    /\ UNCHANGED <<socket, connectSt, wire, cuts, closes>>
    /\ UNCHANGED parserVars
    /\ UNCHANGED codecVars
    /\ UNCHANGED timedOut
    /\ UNCHANGED emitterVars

SockClose ==
    /\ sockState \in {"closing", "ended"}
    /\ sockState' = "closed"
    /\ emitted' = Bump(emitted, "close")
    /\ evlog' = Append(evlog, [type |-> "close", err |-> NoError])
    /\ wire' = <<>>
    /\ Becomes(settle([Client EXCEPT !.inv = Deliver(inv, "close", <<>>)], "closed"))
    /\ UNCHANGED <<socket, connectSt, cuts, closes>>
    /\ UNCHANGED parserVars
    /\ UNCHANGED codecVars
    /\ UNCHANGED timedOut
    /\ UNCHANGED emitterVars

\* the peer answers the oldest request it holds, a segment for each sentence
ServerReply(reply) ==
    /\ sockState = "open"
    /\ unanswered # <<>>
    /\ unanswered' = Tail(unanswered)
    /\ inv' = [inv EXCEPT ![Head(unanswered)].answered = TRUE,
                          ![Head(unanswered)].reply = reply]
    /\ wire' = wire \o [i \in 1..Len(reply) |-> EncodeSentence(reply[i])]
    /\ UNCHANGED <<socket, sockState, flowing, connectSt, written, login, emitted, evlog,
                   cuts, closes>>
    /\ UNCHANGED parserVars
    /\ UNCHANGED codecVars
    /\ UNCHANGED timedOut
    /\ UNCHANGED emitterVars

\* a 'data' event carrying the next m segments in one chunk
Data(m) ==
    /\ sockState = "open"
    /\ flowing
    /\ m \in 1..Len(wire)
    /\ wire' = SubSeq(wire, m + 1, Len(wire))
    /\ Becomes(settle([Client EXCEPT
                          !.inv = Deliver(inv, "data", ConcatAll(SubSeq(wire, 1, m)))],
                      "open"))
    /\ UNCHANGED <<socket, sockState, connectSt, emitted, evlog, cuts, closes>>
    /\ UNCHANGED parserVars
    /\ UNCHANGED codecVars
    /\ UNCHANGED timedOut
    /\ UNCHANGED emitterVars

\* a 'data' event carrying only the first k bytes of the next segment
DataPart(k) ==
    /\ sockState = "open"
    /\ flowing
    /\ wire # <<>>
    /\ k \in 1..(Len(Head(wire)) - 1)
    /\ wire' = <<SubSeq(Head(wire), k + 1, Len(Head(wire)))>> \o Tail(wire)
    /\ Becomes(settle([Client EXCEPT
                          !.inv = Deliver(inv, "data", SubSeq(Head(wire), 1, k))],
                      "open"))
    /\ UNCHANGED <<socket, sockState, connectSt, emitted, evlog, closes>>
    /\ UNCHANGED parserVars
    /\ UNCHANGED codecVars
    /\ UNCHANGED timedOut
    /\ UNCHANGED emitterVars

\* the same, within the bound on such events
DataCut(k) ==
    /\ cuts < MaxCuts
    /\ cuts' = cuts + 1
    /\ DataPart(k)

ParserIdle ==
    /\ pIn = [bytes |-> <<>>, boundary |-> TRUE]
    /\ pLeft = <<>>
    /\ pRest = <<>>
    /\ pOut = <<>>

\* no operation of the codec model was asked for
NoOp ==
    [op |-> "none"]

NotRun ==
    [done |-> FALSE]

CodecIdle ==
    /\ cIn = NoOp
    /\ cOut = NotRun

\* no call was made on the emitter
NoCall ==
    [no |-> 0, op |-> "none"]

\* an emitter as createEmitter returns it (source lines 45-46)
EmitterIdle ==
    /\ listeners = [ev \in EmEvents |-> <<>>]
    /\ wrappers = 0
    /\ regs = [ev \in EmEvents |-> [name \in Fns |-> 0]]
    /\ call = NoCall
    /\ fired = <<>>
    /\ offed = [ev \in EmEvents |-> [name \in Fns |-> FALSE]]

Init ==
    /\ socket = "null"
    /\ sockState = "none"
    /\ flowing = FALSE
    /\ connectSt = "idle"
    /\ timedOut = FALSE
    /\ wire = <<>>
    /\ written = <<>>
    /\ unanswered = <<>>
    /\ inv = [i \in Cmds |-> Unused]
    /\ login = NoLogin
    /\ emitted = [connect |-> 0, error |-> 0, close |-> 0, end |-> 0]
    /\ evlog = <<>>
    /\ cuts = 0
    /\ closes = 0
    /\ ParserIdle
    /\ CodecIdle
    /\ EmitterIdle

Next ==
    \/ CallConnect
    \/ CallConnectThrows
    \/ CallRunCommand
    \/ CallGetSystemIdentity
    \/ CallLogin
    \/ CallClose
    \/ SockConnect
    \/ SockTimeout
    \/ \E err \in Errors : SockError(err)
    \/ SockEnd
    \/ SockClose
    \/ \E reply \in Replies : ServerReply(reply)
    \/ \E m \in 1..Len(wire) : Data(m)
    \/ \E k \in 1..MaxSegment : DataCut(k)

Spec ==
    Init /\ [][Next]_vars


(***************************************************************************)
(* One command and its reply, in every fragmentation: the client is        *)
(* connected, runCommand("/interface/print") was called and the peer has   *)
(* sent its whole reply; the 'data' events cut it anywhere.                *)
(***************************************************************************)
StreamReplies ==
    { <<SDone>>,
      \* !re =name=ether1 / !re =name=ether2 / !done
      <<<<ReTag, <<61, 110, 97, 109, 101, 61, 101, 116, 104, 101, 114, 49>>>>,
        <<ReTag, <<61, 110, 97, 109, 101, 61, 101, 116, 104, 101, 114, 50>>>>, SDone>>,
      \* !trap =message=invalid user name or password / !done
      <<<<TrapTag, <<61, 109, 101, 115, 115, 97, 103, 101, 61, 105, 110, 118, 97, 108, 105, 100, 32, 117, 115, 101, 114, 32, 110, 97, 109, 101, 32, 111, 114, 32, 112, 97, 115, 115, 119, 111, 114, 100>>>>, SDone>>,
      \* !trap =category=2 / !done
      <<<<TrapTag, <<61, 99, 97, 116, 101, 103, 111, 114, 121, 61, 50>>>>, SDone>>,
      \* !fatal session terminated
      <<<<FatalTag, <<115, 101, 115, 115, 105, 111, 110>>, <<116, 101, 114, 109, 105, 110, 97, 116, 101, 100>>>>>> }

InitStream ==
    /\ socket = "sock"
    /\ sockState = "open"
    /\ flowing = TRUE
    /\ connectSt = "ok"
    /\ timedOut = FALSE
    /\ written = <<Request(PrintPath, <<>>)>>
    /\ unanswered = <<>>
    /\ \E reply \in StreamReplies :
          /\ wire = <<EncodeReply(reply)>>
          /\ inv = [i \in Cmds |->
                       IF i = 1
                       THEN [Unused EXCEPT !.st = "pending", !.listeners = SocketEvents,
                                           !.req = 1, !.answered = TRUE, !.reply = reply]
                       ELSE Unused]
    /\ login = NoLogin
    /\ emitted = [connect |-> 1, error |-> 0, close |-> 0, end |-> 0]
    /\ evlog = <<>>
    /\ cuts = 0
    /\ closes = 0
    /\ ParserIdle
    /\ CodecIdle
    /\ EmitterIdle

StreamPart(k) ==
    /\ DataPart(k)
    /\ UNCHANGED cuts

NextStream ==
    \/ \E m \in 1..Len(wire) : Data(m)
    \/ \E k \in 1..Len(ConcatAll(wire)) : StreamPart(k)

SpecStream ==
    InitStream /\ [][NextStream]_vars

(***************************************************************************)
(* login and the challenge of its first reply: the client is connected,    *)
(* login("admin", "secret") has written its first /login and the peer has  *)
(* sent `!re =ret=<challenge>`, `!done`; the 'data' events cut the reply   *)
(* anywhere.                                                               *)
(***************************************************************************)
\* challenges: 0a, 0A, 0a1, a, 0a1b
Challenges ==
    {<<48, 97>>, <<48, 65>>, <<48, 97, 49>>, <<97>>, <<48, 97, 49, 98>>}

LoginReplies ==
    {<<<<ReTag, EqSign \o RetKey \o EqSign \o ch>>, SDone>> : ch \in Challenges}

InitLogin ==
    /\ socket = "sock"
    /\ sockState = "open"
    /\ flowing = TRUE
    /\ connectSt = "ok"
    /\ timedOut = FALSE
    /\ written = <<Request(LoginPath, <<<<NameKey, UserAdmin>>,
                                        <<PasswordKey, PasswordSecret>>>>)>>
    /\ unanswered = <<>>
    /\ \E reply \in LoginReplies :
          /\ wire = <<EncodeReply(reply)>>
          /\ inv = [i \in Cmds |->
                       IF i = 1
                       THEN [Unused EXCEPT !.st = "pending", !.listeners = SocketEvents,
                                           !.req = 1, !.answered = TRUE, !.reply = reply]
                       ELSE Unused]
    /\ login = [pc |-> "await1", cmd1 |-> 1, cmd2 |-> 0, user |-> UserAdmin,
                password |-> PasswordSecret, result |-> NoResult]
    /\ emitted = [connect |-> 1, error |-> 0, close |-> 0, end |-> 0]
    /\ evlog = <<>>
    /\ cuts = 0
    /\ closes = 0
    /\ ParserIdle
    /\ CodecIdle
    /\ EmitterIdle

SpecLogin ==
    InitLogin /\ [][NextStream]_vars

(***************************************************************************)
(* The parser alone: an input B is fed to parseSentences chunk by chunk,   *)
(* each call on the residual of the last one followed by the next chunk.   *)
(***************************************************************************)
\* words of the parser model's sentences: "a", "bc"
PWords ==
    {<<97>>, <<98, 99>>}

\* the sentences of the parser model; the one without words is a terminator
\* on its own
PSentences ==
    UNION {[1..n -> PWords] : n \in 0..MaxWords}

\* the bytes of 1..MaxSents complete sentences
PBodies ==
    {EncodeReply(ss) : ss \in UNION {[1..m -> PSentences] : m \in 1..MaxSents}}

\* the bytes of an incomplete sentence: a sentence cut before its end
PTails ==
    UNION {{SubSeq(e, 1, n) : n \in 1..(Len(e) - 1)} :
              e \in {EncodeSentence(st) : st \in PSentences}}

\* the inputs: complete sentences, optionally followed by an incomplete one
PInputs ==
    {[bytes |-> b, boundary |-> TRUE] : b \in PBodies}
        \cup {[bytes |-> b \o t, boundary |-> FALSE] : b \in PBodies, t \in PTails}

InitParse ==
    /\ socket = "null"
    /\ sockState = "none"
    /\ flowing = FALSE
    /\ connectSt = "idle"
    /\ timedOut = FALSE
    /\ wire = <<>>
    /\ written = <<>>
    /\ unanswered = <<>>
    /\ inv = [i \in Cmds |-> Unused]
    /\ login = NoLogin
    /\ emitted = [connect |-> 0, error |-> 0, close |-> 0, end |-> 0]
    /\ evlog = <<>>
    /\ cuts = 0
    /\ closes = 0
    /\ pIn \in PInputs
    /\ pLeft = pIn.bytes
    /\ pRest = <<>>
    /\ pOut = <<>>
    /\ CodecIdle
    /\ EmitterIdle

\* the next k bytes of B arrive: parseSentences(rest ++ chunk), as the first
\* two statements of onData call it (source lines 477-479)
Feed(k) ==
    /\ k \in 1..Len(pLeft)
    /\ LET parsed == parseSentences(pRest \o SubSeq(pLeft, 1, k))
       IN  /\ pRest' = parsed.rest
           /\ pOut' = pOut \o parsed.sentences
    /\ pLeft' = SubSeq(pLeft, k + 1, Len(pLeft))
    /\ UNCHANGED pIn
    /\ UNCHANGED clientVars
    /\ UNCHANGED codecVars
    /\ UNCHANGED emitterVars

NextParse ==
    \E k \in 1..Len(pLeft) : Feed(k)

SpecParse ==
    InitParse /\ [][NextParse]_vars


(***************************************************************************)
(* The codec alone: one operation on one input.  A number below 2^32 is    *)
(* held as its two 16-bit halves.                                          *)
(***************************************************************************)
\* the number n + d, for 0 <= n + d < 2^31
Wide(n, d) ==
    [hi |-> (n + d) \div W16, lo |-> (n + d) % W16]

\* the number 2^31 + k, for 0 <= k < 2^31
WideHigh(k) ==
    [hi |-> 32768 + (k \div W16), lo |-> k % W16]

\* ToInt32 of a number below 2^32
ToInt32(n) ==
    IF n.hi >= 32768 THEN (n.hi - W16) * W16 + n.lo ELSE n.hi * W16 + n.lo

\* the lengths near the borders of the five ranges of the length prefix
CodecLengths ==
    {Wide(0, d) : d \in 0..MaxAway}
        \cup {Wide(b, d) : b \in {128, 16384, 2097152, 268435456},
                           d \in (-MaxAway)..MaxAway}
        \cup {Wide(2147483647, -d) : d \in 0..MaxAway}
        \cup {WideHigh(k) : k \in 0..MaxAway}
        \cup {WideHigh(2147483647 - k) : k \in 0..MaxAway}

\* words: "", "a", "=k=v", U+FEFF "a", "a" U+FEFF, and 130 times "a"
CodecWords ==
    {<<>>, <<97>>, <<61, 107, 61, 118>>, <<65279, 97>>, <<97, 65279>>,
     [i \in 1..130 |-> 97]}

CodecWordLists ==
    UNION {[1..n -> CodecWords] : n \in 0..MaxItems}

QueryNameKey ==
    <<63, 110, 97, 109, 101>>                     \* "?name"

\* keys that are array indices: "2" and "10"
IndexKeys ==
    {<<50>>, <<49, 48>>}

\* params objects, as the sequence of their entries: the keys differ
CodecParams ==
    {ps \in UNION {[1..n -> ({NameKey, QueryNameKey, PasswordKey} \cup IndexKeys)
                                \X {<<120>>, <<>>}] :
                      n \in 0..MaxItems} :
        \A i, j \in 1..Len(ps) : ps[i][1] = ps[j][1] => i = j}

\* words of reply sentences: =a=1, =a=2, =c=a=b, x, =__proto__=x
ReplyWords ==
    {<<61, 97, 61, 49>>, <<61, 97, 61, 50>>, <<61, 99, 61, 97, 61, 98>>, <<120>>,
     EqSign \o ProtoKey \o <<61, 120>>}

\* lists of one or two sentences: a tag and up to MaxItems words, then
\* possibly `!re =a=1` or `!done`
CodecReplies ==
    LET first == {<<tag>> \o ws : tag \in {ReTag, DoneTag},
                                  ws \in UNION {[1..n -> ReplyWords] : n \in 0..MaxItems}}
    IN  {<<st>> : st \in first}
            \cup {<<st, nd>> : st \in first, nd \in {<<ReTag, <<61, 97, 61, 49>>>>, <<DoneTag>>}}

\* length prefixes of two to five bytes cut before their end
CodecCuts ==
    UNION {{SubSeq(e, 1, k) : k \in 1..(Len(e) - 1)} :
              e \in {encodeLength(ToInt32(n)) : n \in CodecLengths}}

\* buffers that begin with a byte of none of the five forms of a length
CodecBad ==
    {<<f>> \o t : f \in {241, 248, 255}, t \in {<<>>, <<1, 97, 0>>}}

InitCodec ==
    /\ socket = "sock"
    /\ sockState = "open"
    /\ flowing = FALSE
    /\ connectSt = "ok"
    /\ timedOut = FALSE
    /\ wire = <<>>
    /\ written = <<>>
    /\ unanswered = <<>>
    /\ inv = [i \in Cmds |-> Unused]
    /\ login = NoLogin
    /\ emitted = [connect |-> 1, error |-> 0, close |-> 0, end |-> 0]
    /\ evlog = <<>>
    /\ cuts = 0
    /\ closes = 0
    /\ ParserIdle
    /\ cIn \in {[op |-> "length", len |-> n] : n \in CodecLengths}
                \cup {[op |-> "words", ws |-> ws] : ws \in CodecWordLists}
                \cup {[op |-> "request", params |-> ps] : ps \in CodecParams}
                \cup {[op |-> "cut", bytes |-> b] : b \in CodecCuts}
                \cup {[op |-> "bad", bytes |-> b] : b \in CodecBad}
                \cup {[op |-> "objects", sentences |-> ss] : ss \in CodecReplies}
    /\ cOut = NotRun
    /\ EmitterIdle

\* decodeLength(encodeLength(L))
RoundTripLength ==
    /\ cIn.op = "length"
    /\ ~cOut.done
    /\ LET encoded == encodeLength(ToInt32(cIn.len))
       IN  cOut' = [done |-> TRUE, encoded |-> encoded, decoded |-> decodeLength(encoded, 0)]
    /\ UNCHANGED cIn
    /\ UNCHANGED clientVars
    /\ UNCHANGED parserVars
    /\ UNCHANGED emitterVars

\* parseSentences of encodeWord(w) for each w of ws, then one 0x00 byte
RoundTripWords ==
    /\ cIn.op = "words"
    /\ ~cOut.done
    /\ LET bytes == ConcatAll([i \in 1..Len(cIn.ws) |-> encodeWord(cIn.ws[i])]) \o <<0>>
       IN  cOut' = [done |-> TRUE, parsed |-> parseSentences(bytes)]
    /\ UNCHANGED cIn
    /\ UNCHANGED clientVars
    /\ UNCHANGED parserVars
    /\ UNCHANGED emitterVars

\* runCommand("/interface/print", params) on the connected client: the request
\* it writes and the words of that request
WriteRequest ==
    /\ cIn.op = "request"
    /\ ~cOut.done
    /\ LET cs   == runCommand(Client, sockState, PrintPath, cIn.params)
           data == cs.written[Len(cs.written)]
       IN  /\ Becomes(cs)
           /\ cOut' = [done |-> TRUE, data |-> data,
                       words |-> parseSentences(data).sentences[1]]
    /\ UNCHANGED cIn
    /\ UNCHANGED <<socket, sockState, connectSt, wire, emitted, evlog, cuts, closes>>
    /\ UNCHANGED parserVars
    /\ UNCHANGED timedOut
    /\ UNCHANGED emitterVars

\* decodeLength at the head of a buffer that ends inside a length prefix
DecodeCut ==
    /\ cIn.op = "cut"
    /\ ~cOut.done
    /\ cOut' = [done |-> TRUE, decoded |-> decodeLength(cIn.bytes, 0)]
    /\ UNCHANGED cIn
    /\ UNCHANGED clientVars
    /\ UNCHANGED parserVars
    /\ UNCHANGED emitterVars

\* decodeLength and parseSentences on a buffer whose first byte is no length
DecodeBad ==
    /\ cIn.op = "bad"
    /\ ~cOut.done
    /\ cOut' = [done |-> TRUE, decoded |-> decodeLength(cIn.bytes, 0),
                parsed |-> parseSentences(cIn.bytes)]
    /\ UNCHANGED cIn
    /\ UNCHANGED clientVars
    /\ UNCHANGED parserVars
    /\ UNCHANGED emitterVars

\* toObjects on a list of sentences
ToObjects ==
    /\ cIn.op = "objects"
    /\ ~cOut.done
    /\ cOut' = [done |-> TRUE, objects |-> toObjects(cIn.sentences)]
    /\ UNCHANGED cIn
    /\ UNCHANGED clientVars
    /\ UNCHANGED parserVars
    /\ UNCHANGED emitterVars

NextCodec ==
    \/ RoundTripLength
    \/ RoundTripWords
    \/ WriteRequest
    \/ DecodeCut
    \/ DecodeBad
    \/ ToObjects

SpecCodec ==
    InitCodec /\ [][NextCodec]_vars

(***************************************************************************)
(* The emitter on its own, and close() of a client whose emitter has       *)
(* listeners.  Every action is one call from outside: it runs to its end,  *)
(* the listeners it invokes and the calls they make included.              *)
(***************************************************************************)
\* the call made: its number, what it was given, the listener calls and emits
\* it made, the exception that left it (NoError for none), what it returned
Ran(e, op, event, fn, threw, returned) ==
    /\ listeners' = Listeners(e)
    /\ wrappers' = e.wrappers
    /\ regs' = e.regs
    /\ offed' = e.offed
    /\ call' = [no |-> call.no + 1, op |-> op, event |-> event, fn |-> fn,
                calls |-> e.calls, emits |-> e.emits, threw |-> threw,
                returned |-> returned, before |-> listeners]
    /\ fired' = [w \in 1..e.wrappers |->
                    (IF w <= Len(fired) THEN fired[w] ELSE 0)
                    + Cardinality({i \in 1..Len(e.calls) : e.calls[i].wrapper = w})]

Emitter ==
    Running(listeners, wrappers, regs, offed)

\* once without its `return`: the value of on(event, wrapper) is dropped
ReturnedOnceDrops(op) ==
    IF op \in {"on", "off"} THEN "emitter" ELSE "undefined"

\* what each operation returns: on and off end with `return emitter`, once
\* returns what on returns, emit has no return statement
Returned(op) ==
    CASE op = "on" -> "emitter"
      [] op = "once" -> "emitter"
      [] op = "off" -> "emitter"
      [] op = "emit" -> "undefined"

On(event, name) ==
    /\ call.no < MaxOps
    /\ Ran(on(Emitter, event, Fn(name)), "on", event, name, NoError, Returned("on"))
    /\ UNCHANGED clientVars
    /\ UNCHANGED parserVars
    /\ UNCHANGED codecVars

Once(event, name) ==
    /\ call.no < MaxOps
    /\ Ran(once(Emitter, event, Fn(name)), "once", event, name, NoError, Returned("once"))
    /\ UNCHANGED clientVars
    /\ UNCHANGED parserVars
    /\ UNCHANGED codecVars

Off(event, name) ==
    /\ call.no < MaxOps
    /\ Ran(off(Emitter, event, Fn(name)), "off", event, name, NoError, Returned("off"))
    /\ UNCHANGED clientVars
    /\ UNCHANGED parserVars
    /\ UNCHANGED codecVars

\* emit(event, ...args): it returns nothing (source lines 75-78)
Emit(event, args) ==
    /\ call.no < MaxOps
    /\ LET e == emit(Emitter, event, args)
       IN  Ran([e EXCEPT !.thrown = NoError], "emit", event, "", e.thrown, Returned("emit"))
    /\ UNCHANGED clientVars
    /\ UNCHANGED parserVars
    /\ UNCHANGED codecVars

InitEmitter ==
    /\ socket = "null"
    /\ sockState = "none"
    /\ flowing = FALSE
    /\ connectSt = "idle"
    /\ timedOut = FALSE
    /\ wire = <<>>
    /\ written = <<>>
    /\ unanswered = <<>>
    /\ inv = [i \in Cmds |-> Unused]
    /\ login = NoLogin
    /\ emitted = [connect |-> 0, error |-> 0, close |-> 0, end |-> 0]
    /\ evlog = <<>>
    /\ cuts = 0
    /\ closes = 0
    /\ ParserIdle
    /\ CodecIdle
    /\ EmitterIdle

NextEmitter ==
    \/ \E event \in EmEvents, name \in Fns : On(event, name)
    \/ \E event \in EmEvents, name \in Fns : Once(event, name)
    \/ \E event \in EmEvents, name \in Fns : Off(event, name)
    \/ \E event \in EmEvents, args \in EmArgs : Emit(event, args)

SpecEmitter ==
    InitEmitter /\ [][NextEmitter]_vars

\* the functions a user of the client can register: the client gives out on,
\* once and off, not emit (source lines 570-657)
ClientFns ==
    Fns \ {"emitsAgain"}

\* close() with the listeners registered (source lines 555-568)
Close ==
    /\ closes < MaxCloses
    /\ closes' = closes + 1
    /\ sockState' = IF sockState \in {"connecting", "open", "ended"} THEN "closing"
                    ELSE sockState
    /\ wire' = <<>>
    /\ inv' = [i \in Cmds |-> IF inv[i].st = "pending"
                               THEN [inv[i] EXCEPT !.closedOn = TRUE] ELSE inv[i]]
    /\ LET r == close(Emitter)
       IN  /\ Ran(r.e, "close", "", "", r.threw, r.result)
           /\ emitted' = [emitted EXCEPT
                  !.close = @ + 1,
                  !.error = @ + Cardinality({n \in 1..Len(r.e.emits) :
                                               r.e.emits[n].event = "error"})]
    /\ UNCHANGED <<socket, flowing, connectSt, timedOut, written, unanswered, login, evlog,
                   cuts>>
    /\ UNCHANGED parserVars
    /\ UNCHANGED codecVars

\* the 'close' event of the destroyed socket, which connect() forwards:
\* s.on("close", () => events.emit("close")) (source line 336)
SockCloseEmits ==
    /\ sockState = "closing"
    /\ sockState' = "closed"
    /\ LET e == emit(Emitter, "close", NoArgs)
       IN  Ran([e EXCEPT !.thrown = NoError], "sockClose", "close", "", e.thrown,
               Returned("emit"))
    /\ emitted' = Bump(emitted, "close")
    /\ UNCHANGED <<socket, flowing, connectSt, timedOut, wire, written, unanswered, inv,
                   login, evlog, cuts, closes>>
    /\ UNCHANGED parserVars
    /\ UNCHANGED codecVars

InitClose ==
    /\ socket = "sock"
    /\ sockState = "open"
    /\ flowing = FALSE
    /\ connectSt = "ok"
    /\ timedOut = FALSE
    /\ wire = <<>>
    /\ written = <<>>
    /\ unanswered = <<>>
    /\ inv = [i \in Cmds |-> Unused]
    /\ login = NoLogin
    /\ emitted = [connect |-> 1, error |-> 0, close |-> 0, end |-> 0]
    /\ evlog = <<>>
    /\ cuts = 0
    /\ closes = 0
    /\ ParserIdle
    /\ CodecIdle
    /\ EmitterIdle

NextClose ==
    \/ \E event \in EmEvents, name \in ClientFns : On(event, name)
    \/ \E event \in EmEvents, name \in ClientFns : Once(event, name)
    \/ \E event \in EmEvents, name \in ClientFns : Off(event, name)
    \/ Close
    \/ SockCloseEmits

SpecClose ==
    InitClose /\ [][NextClose]_vars

(***************************************************************************)
(* Properties of the command engine, checked under Spec.                   *)
(***************************************************************************)
\* C1: an invocation of runCommand produces at most one Result, whatever
\* 'data', 'error', 'close' and 'end' events the socket emits, and when the
\* Result is produced none of its four listeners is still on the socket.
OneResultNoListeners ==
    \A i \in Cmds :
        /\ inv[i].resolves <= 1
        /\ inv[i].st = "resolved" => inv[i].atResolve = {} /\ inv[i].listeners = {}

\* an invocation resolved by a reply, on a socket that emitted 'close' as well
OneResultSeen ==
    \E i \in Cmds :
        /\ inv[i].by = "data"
        /\ inv[i].resolves = 1
        /\ \E n \in 1..Len(evlog) : evlog[n].type = "close"

\* C4: when the reply to the first /login is `!done =ret=<hex>`, login writes
\* a second /login whose response attribute is "00" followed by the hex MD5
\* of 0x00, the password bytes and the challenge bytes, and reports success
\* only after that second command resolved successfully.
LegacyLoginSendsResponse ==
    LET c1    == inv[login.cmd1]
        c2    == inv[login.cmd2]
        isRet == /\ Len(c1.reply) = 1
                 /\ Len(c1.reply[1]) = 2
                 /\ c1.reply[1][1] = DoneTag
                 /\ StartsWith(c1.reply[1][2], EqSign \o RetKey \o EqSign)
    IN  (login.pc = "done" /\ login.result.status /\ login.cmd1 = 1
            /\ c1.by = "data" /\ c1.answered /\ isRet)
        => /\ login.cmd2 # 0
           /\ c2.req # 0
           /\ written[c2.req]
                = Request(LoginPath,
                          <<<<NameKey, login.user>>,
                            <<ResponseKey,
                              LoginResponse(login.password,
                                            SliceFrom(c1.reply[1][2], 5))>>>>)
           /\ c2.st = "resolved"
           /\ c2.result.status

\* C34: when the `ret` that login finds in the reply to its first /login has
\* an odd number of hex digits, login returns a failure and writes no second
\* /login.
OddChallengeRejected ==
    LET reply == inv[login.cmd1].result
    IN  (login.pc \in {"await2", "done"} /\ reply.status
            /\ Len(FindRet(reply.data)) % 2 = 1)
        => /\ login.pc = "done"
           /\ ~login.result.status
           /\ Len(written) = 1

\* C5: a runCommand called while the transport is not connected (connect
\* never called, connect failed, or the client closed) fails at once with
\* "Not connected", installs no listener and writes nothing.
NotConnectedRejected ==
    [][\A i \in Cmds :
          (inv[i].st = "unused" /\ inv'[i].st # "unused"
              /\ sockState \in {"none", "closing", "closed"})
          => /\ inv'[i].st = "resolved"
             /\ inv'[i].result = Failure(MsgNotConnected, NoError)
             /\ inv'[i].listeners = {}
             /\ written' = written]_vars

\* C6: an invocation in flight when close() is called resolves, with the
\* failure "Connection closed": as long as it has not, the socket's 'close'
\* event is still to come.
CloseResolvesInFlight ==
    \A i \in Cmds :
        inv[i].closedOn
        => \/ inv[i].st = "resolved" /\ inv[i].result = Failure(MsgClosed, NoError)
           \/ inv[i].st = "pending" /\ sockState = "closing"

\* C7: a transport event that reaches an invocation in flight resolves it as
\* a failure named by that event: 'error' with the error's message and the
\* error attached, 'close' with "Connection closed", 'end' with "Connection
\* ended"; the records collected so far are not returned.
TransportEventFails ==
    [][\A i \in Cmds :
          (inv[i].st = "pending" /\ Len(evlog') = Len(evlog) + 1)
          => LET e == evlog'[Len(evlog')]
             IN  /\ inv'[i].st = "resolved"
                 /\ "data" \notin DOMAIN inv'[i].result
                 /\ inv'[i].result
                      = IF e.type = "error" THEN Failure(e.err.message, e.err)
                        ELSE IF e.type = "close" THEN Failure(MsgClosed, NoError)
                        ELSE Failure(MsgEnded, NoError)]_vars

\* an invocation that had collected a sentence and failed on 'close'
ClosedAfterRecords ==
    \E i \in Cmds :
        /\ inv[i].by = "close"
        /\ inv[i].responses # <<>>
        /\ inv[i].result = Failure(MsgClosed, NoError)

\* C11: whatever runCommand, login and getSystemIdentity calls are made, at
\* most one runCommand invocation is unresolved with its listeners on the
\* socket at any time.
SingleInFlight ==
    Cardinality({i \in Cmds : inv[i].st = "pending" /\ inv[i].listeners # {}}) <= 1

\* C18: connect() does not stay unresolved: it is pending only while the
\* socket is connecting and the connect timeout has not fired; the step in
\* which the socket connects, fails, is destroyed or times out resolves it.
ConnectResolves ==
    connectSt = "pending" => (sockState = "connecting" /\ ~timedOut)

\* C27: an invocation that was never pending together with another one is
\* resolved by 'data' only after the peer has answered its own request: what an
\* earlier reply left on the socket (the `!done` after a `!trap`) resolves no
\* later command.
OwnReplyOnly ==
    \A i \in Cmds :
        (inv[i].by = "data" /\ ~inv[i].shared) => inv[i].answered

\* C12: when the first /login command of login fails, login returns a failure
\* with exactly that command's message and error, and writes no second
\* /login.
FirstLoginFailurePropagates ==
    [][(login' # login /\ login'.pc = "done" /\ login'.cmd1 # 0
           /\ ~inv'[login'.cmd1].result.status)
       => /\ login'.result = inv'[login'.cmd1].result
          /\ login'.cmd2 = 0
          /\ written' = written]_vars

\* a login whose first command failed on a socket error, the error attached
LoginFailedOnError ==
    /\ login.pc = "done"
    /\ login.cmd1 # 0
    /\ inv[login.cmd1].by = "error"
    /\ ~login.result.status
    /\ login.result.error \in Errors

\* C13: when the reply to the first /login is `!done` with no `ret`, and the
\* command was in flight alone, login returns success after exactly one
\* command: one request written, no second /login.
ModernLoginOneRoundTrip ==
    login.cmd1 # 0
    => LET c1 == inv[login.cmd1]
       IN  (c1.answered /\ c1.reply = <<SDone>> /\ c1.by = "data" /\ ~c1.shared)
           => /\ login.pc = "done"
              /\ login.result = LoginOk
              /\ login.cmd2 = 0
              /\ c1.req # 0
              /\ written[c1.req]
                   = Request(LoginPath, <<<<NameKey, login.user>>,
                                          <<PasswordKey, login.password>>>>)

\* a login that succeeded on a bare `!done`, one request written
ModernLoginSeen ==
    /\ login.pc = "done"
    /\ login.result = LoginOk
    /\ login.cmd1 # 0
    /\ inv[login.cmd1].answered
    /\ inv[login.cmd1].reply = <<SDone>>
    /\ Len(written) = 1

\* C14, as the code has it: a failure returned by login because one of its
\* /login commands failed carries that command's message and error
\* unchanged, without the prefix "Login failed: ".
LoginFailureVerbatim ==
    (login.pc = "done" /\ ~login.result.status)
    => LET c == IF login.cmd2 # 0 THEN inv[login.cmd2] ELSE inv[login.cmd1]
       IN  /\ login.result.message = c.result.message
           /\ login.result.error = c.result.error
           /\ ~StartsWith(login.result.message, LoginFailedPrefix)

\* C14, as stated: every failure returned by login has a message that begins
\* with "Login failed: ".
LoginFailurePrefixed ==
    (login.pc = "done" /\ ~login.result.status)
    => StartsWith(login.result.message, LoginFailedPrefix)

\* a login that failed on its second /login command
SecondLoginFailed ==
    /\ login.pc = "done"
    /\ ~login.result.status
    /\ login.cmd2 # 0

(***************************************************************************)
(* Properties of one command in every fragmentation of its reply, checked  *)
(* under SpecStream.                                                       *)
(***************************************************************************)
\* C2: however the bytes of the reply are cut into 'data' chunks, the
\* invocation resolves with the Result it has when they arrive in one chunk
\* (for `!re =name=ether1`, `!re =name=ether2`, `!done`: the two records).
ChunkingInvariant ==
    LET fresh == [Unused EXCEPT !.st = "pending", !.listeners = SocketEvents]
        whole == onData(fresh, EncodeReply(inv[1].reply))
    IN  wire = <<>> => inv[1].st = whole.st /\ inv[1].result = whole.result

\* C26: once every byte of the reply, which ends with a terminal sentence, has
\* arrived, in whatever chunks, the invocation is resolved.
TerminalResolves ==
    wire = <<>> => inv[1].st = "resolved"

\* C8: a reply of n `!re` sentences followed by `!done` resolves as success
\* with exactly n records, in arrival order, each holding the attributes of
\* its sentence.
ReRecordsReturned ==
    LET c   == inv[1]
        r   == c.reply
        n   == Len(r) - 1
        key(w) == Head(Split(SliceFrom(w, 1), 61))
        val(w) == SliceFrom(w, Len(key(w)) + 2)
        attrs(sent) ==
            LET idx == {j \in 2..Len(sent) : StartsWith(sent[j], EqSign)}
                last(k) == CHOOSE j \in idx :
                               /\ key(sent[j]) = k
                               /\ \A m \in idx : key(sent[m]) = k => m <= j
            IN  [k \in {key(sent[j]) : j \in idx} |-> val(sent[last(k)])]
    IN  (wire = <<>> /\ r[Len(r)][1] = DoneTag /\ \A j \in 1..n : r[j][1] = ReTag)
        => /\ c.st = "resolved"
           /\ c.result.status
           /\ Len(c.result.data) = n
           /\ \A j \in 1..n : c.result.data[j] = attrs(r[j])

\* C9: a reply whose first terminal sentence is `!trap` resolves as failure
\* with the value of the first `=message=` word of that sentence, or with
\* "Trap error" when it has none.
TrapFails ==
    LET c == inv[1]
        r == c.reply
    IN  \A t \in 1..Len(r) :
            (wire = <<>> /\ r[t][1] = TrapTag /\ \A j \in 1..(t - 1) : r[j][1] = ReTag)
            => LET hits == {j \in 1..Len(r[t]) : StartsWith(r[t][j], MessagePrefix)}
                   frst == CHOOSE j \in hits : \A m \in hits : j <= m
               IN  /\ c.st = "resolved"
                   /\ ~c.result.status
                   /\ c.result.message
                        = IF hits = {} THEN MsgTrap
                          ELSE SubSeq(r[t][frst], Len(MessagePrefix) + 1, Len(r[t][frst]))

\* C10: a reply whose first terminal sentence is `!fatal` resolves as failure
\* with "Fatal error: " followed by the remaining words of that sentence
\* joined by single spaces.
FatalFails ==
    LET c == inv[1]
        r == c.reply
    IN  \A t \in 1..Len(r) :
            (wire = <<>> /\ r[t][1] = FatalTag /\ \A j \in 1..(t - 1) : r[j][1] = ReTag)
            => /\ c.st = "resolved"
               /\ ~c.result.status
               /\ c.result.message = MsgFatalPrefix \o Join(Tail(r[t]), <<32>>)

(***************************************************************************)
(* Properties of the parser, checked under SpecParse.                      *)
(***************************************************************************)
\* C3: feeding B to the parser chunk by chunk, each call on the residual of
\* the last one followed by the next chunk, yields the sentences of
\* parseSentences(B), and the last residual is empty exactly when B ends on a
\* sentence boundary.
ParserChunking ==
    pLeft = <<>>
    => /\ pOut = parseSentences(pIn.bytes).sentences
       /\ pRest = <<>> <=> pIn.boundary

RECURSIVE Scan(_, _, _, _)
\* a buffer of words behind one-byte lengths read as the protocol lays it out:
\* `sentences` are the runs of one or more words that end with a zero-length
\* word, `end` is the offset behind the last zero-length word
Scan(buffer, offset, words, found) ==
    IF offset >= Len(buffer) THEN found
    ELSE LET n == buffer[offset + 1]
         IN  IF n = 0
             THEN Scan(buffer, offset + 1, <<>>,
                       [sentences |-> IF words = <<>> THEN found.sentences
                                      ELSE Append(found.sentences, words),
                        end |-> offset + 1])
             ELSE IF offset + 1 + n > Len(buffer) THEN found
             ELSE Scan(buffer, offset + 1 + n,
                       Append(words, SubSeq(buffer, offset + 2, offset + 1 + n)), found)

Terminated(buffer) ==
    Scan(buffer, 0, <<>>, [sentences |-> <<>>, end |-> 0])

\* the buffer of the call that a step of the parser makes
FedBuffer ==
    pRest \o SubSeq(pLeft, 1, Len(pLeft) - Len(pLeft'))

\* C28: a call of parseSentences emits exactly the sentences of its buffer that
\* end with their zero-length word: words without a terminator behind them are
\* not emitted, a terminator without words before it emits nothing.
EmitsTerminatedOnly ==
    [][pLeft' # pLeft =>
          SubSeq(pOut', Len(pOut) + 1, Len(pOut')) = Terminated(FedBuffer).sentences]_vars

\* C29: the rest that a call of parseSentences returns is its buffer from
\* behind the terminator of the last sentence on, the whole buffer when it
\* holds none.
RestFollowsLastSentence ==
    [][pLeft' # pLeft =>
          pRest' = SliceFrom(FedBuffer, Terminated(FedBuffer).end)]_vars

(***************************************************************************)
(* Properties of the codec, checked under SpecCodec.                       *)
(***************************************************************************)
\* C15: for a list ws of UTF-8 strings (here: a non-empty list of non-empty
\* strings), parsing encodeWord(w) for each w of ws followed by one 0x00
\* byte returns exactly one sentence, equal to ws, and an empty rest.
WordsRoundTrip ==
    (cIn.op = "words" /\ cOut.done /\ cIn.ws # <<>>
        /\ \A i \in 1..Len(cIn.ws) : cIn.ws[i] # <<>>)
    => /\ cOut.parsed.sentences = <<cIn.ws>>
       /\ cOut.parsed.rest = <<>>

\* C16: for 0 <= L < 2^32, decodeLength(encodeLength(L)) returns the length L
\* and, as bytes, the number of bytes encodeLength(L) produced: 1 to 5 by
\* the range of L.
LengthRoundTrip ==
    (cIn.op = "length" /\ cOut.done)
    => LET L     == cIn.len
           small == L.hi < 32768
           width == IF small /\ ToInt32(L) < 128 THEN 1
                    ELSE IF small /\ ToInt32(L) < 16384 THEN 2
                    ELSE IF small /\ ToInt32(L) < 2097152 THEN 3
                    ELSE IF small /\ ToInt32(L) < 268435456 THEN 4
                    ELSE 5
       IN  /\ cOut.decoded # Null
           /\ Len(cOut.encoded) = width
           /\ cOut.decoded.bytes = width
           /\ cOut.decoded.length >= 0
           /\ cOut.decoded.length \div W16 = L.hi
           /\ cOut.decoded.length % W16 = L.lo

\* C19: a params entry whose key begins with `?` gives the request a query
\* word `?key=value`, a word that begins with `?`; every other entry gives
\* the attribute word `=key=value`.
QueryWordsWritten ==
    (cIn.op = "request" /\ cOut.done)
    => \A i \in 1..Len(cIn.params) :
           LET k == cIn.params[i][1]
               v == cIn.params[i][2]
           IN  IF k[1] = 63
               THEN \E j \in 2..Len(cOut.words) : cOut.words[j] = k \o EqSign \o v
               ELSE \E j \in 2..Len(cOut.words) : cOut.words[j] = EqSign \o k \o EqSign \o v

\* C32: runCommand on a connected client writes once, and what it writes is
\* encodeWord(path), encodeWord("=k=v") for every entry of params in insertion
\* order, k and v as given, and one 0x00 byte.
RequestWritten ==
    (cIn.op = "request" /\ cOut.done)
    => /\ Len(written) = 1
       /\ written[1] = encodeWord(PrintPath)
                           \o ConcatAll([i \in 1..Len(cIn.params) |->
                                            encodeWord(EqSign \o cIn.params[i][1]
                                                       \o EqSign \o cIn.params[i][2])])
                           \o <<0>>

\* the entry at place i of params is written before the one at place j
WrittenBefore(params, i, j) ==
    LET ki == params[i][1]
        kj == params[j][1]
    IN  IF IsIndexKey(ki) /\ IsIndexKey(kj) THEN IndexValue(ki) < IndexValue(kj)
        ELSE IF IsIndexKey(ki) # IsIndexKey(kj) THEN IsIndexKey(ki)
        ELSE i < j

\* C32, amended: runCommand on a connected client writes once: encodeWord(path),
\* encodeWord("=k=v") for every entry of params, k and v as given, and one 0x00
\* byte; the entries are in insertion order, except that entries whose keys
\* are array indices come first, in ascending order of their keys.
RequestWrittenInKeyOrder ==
    (cIn.op = "request" /\ cOut.done)
    => LET n == Len(cIn.params)
       IN  /\ Len(written) = 1
           /\ \E order \in [1..n -> 1..n] :
                 /\ \A i, j \in 1..n : i < j => WrittenBefore(cIn.params, order[i], order[j])
                 /\ written[1] = encodeWord(PrintPath)
                                    \o ConcatAll([i \in 1..n |->
                                           encodeWord(EqSign \o cIn.params[order[i]][1]
                                                      \o EqSign \o cIn.params[order[i]][2])])
                                    \o <<0>>

\* a request was written for params whose last entry has an array index as key
\* and follows an entry with another key
IndexKeyWrittenFirst ==
    /\ cIn.op = "request"
    /\ cOut.done
    /\ Len(cIn.params) = 2
    /\ ~IsIndexKey(cIn.params[1][1])
    /\ IsIndexKey(cIn.params[2][1])
    /\ cOut.words[2] = EqSign \o cIn.params[2][1] \o EqSign \o cIn.params[2][2]

\* the place of the second `=` of a word that begins with `=`, one beyond its
\* end when it has none
SecondEq(word) ==
    IF \E j \in 2..Len(word) : word[j] = 61
    THEN CHOOSE j \in 2..Len(word) : word[j] = 61 /\ \A k \in 2..(j - 1) : word[k] # 61
    ELSE Len(word) + 1

KeyOf(word) ==
    SubSeq(word, 2, SecondEq(word) - 1)

ValueOf(word) ==
    SubSeq(word, SecondEq(word) + 1, Len(word))

\* the record of a sentence: every word `=k=v...` maps k to v..., the last
\* word of a key gives its value
RecordOf(sentence) ==
    LET attrs == {i \in 2..Len(sentence) : sentence[i][1] = 61}
    IN  [k \in {KeyOf(sentence[i]) : i \in attrs} |->
            ValueOf(sentence[CHOOSE i \in attrs :
                                /\ KeyOf(sentence[i]) = k
                                /\ \A j \in attrs : KeyOf(sentence[j]) = k => j <= i])]

\* C33: toObjects returns one record for every sentence that begins with
\* `!re`, in order, and none for the others; a record maps the key of each
\* word `=k=v...` to everything behind the second `=`, leaves out the words
\* that do not begin with `=`, and the last word of a key wins.
ToObjectsRecords ==
    (cIn.op = "objects" /\ cOut.done)
    => LET res == SelectSeq(cIn.sentences, LAMBDA st : st[1] = ReTag)
       IN  /\ Len(cOut.objects) = Len(res)
           /\ \A i \in 1..Len(res) :
                 LET want == RecordOf(res[i])
                     got  == cOut.objects[i]
                 IN  /\ DOMAIN got = DOMAIN want
                     /\ \A k \in DOMAIN want : got[k] = want[k]

\* C30: decodeLength on a buffer that holds the first byte of a length prefix
\* of two to five bytes, and fewer bytes than the prefix has, returns null; it
\* returns no length made from the bytes that are missing.
CutPrefixNeedsMore ==
    (cIn.op = "cut" /\ cOut.done) => cOut.decoded = Null

\* C31: a first byte of 0xF1..0xFF is reported as a decode error, which is not
\* the need-more-data that an exhausted buffer gives, and the parser does not
\* keep such bytes as its rest.
BadPrefixIsError ==
    (cIn.op = "bad" /\ cOut.done)
    => /\ cOut.decoded # decodeLength(<<>>, 0)
       /\ cOut.parsed.rest # cIn.bytes


(***************************************************************************)
(* Claims about the emitter, under SpecEmitter.                            *)
(***************************************************************************)
\* how often emit number n of the last call invoked the function named name
\* itself (not a once wrapper around it)
Invoked(n, name) ==
    Cardinality({c \in 1..Len(call.calls) :
                    /\ call.calls[c].emit = n
                    /\ call.calls[c].fn = name
                    /\ call.calls[c].wrapper = 0})

\* C20: once on(event, fn) was called two or more times with the same fn and
\* no off(event, fn) since, an emit of that event invokes fn exactly once: no
\* emit invokes it twice, and every emit that runs to its end (no listener
\* throws, none takes fn off meanwhile) invokes it.
DuplicateOnIgnored ==
    call.op = "emit" =>
        \A n \in 1..Len(call.emits), name \in Fns :
            LET em == call.emits[n]
            IN  em.regs[em.event][name] >= 2 =>
                    /\ Invoked(n, name) <= 1
                    /\ (~em.threw /\ em.after[em.event][name] >= 2) => Invoked(n, name) = 1

\* on(event, listener1) twice, other listeners or none beside it, then an emit
\* of the event that ran to its end and called listener1 once
DuplicateOnEmitted ==
    /\ call.op = "emit"
    /\ call.threw = NoError
    /\ call.emits[1].regs[call.event]["listener1"] >= 2
    /\ Invoked(1, "listener1") = 1


\* the listener calls that emit number n of the last call made, in order
RECURSIVE CallsOf(_, _)
CallsOf(calls, n) ==
    IF calls = <<>> THEN <<>>
    ELSE (IF Head(calls).emit = n THEN <<Head(calls)>> ELSE <<>>) \o CallsOf(Tail(calls), n)

\* no listener that emit number n called called on, off or emit in its turn
Quiet(c, n) ==
    \A i \in 1..Len(c.calls) :
        c.calls[i].emit = n =>
            /\ c.calls[i].fn \notin {"removes1", "adds2"}
            /\ c.calls[i].fn = "emitsAgain" => c.emits[n].depth > 0

\* C21: the Set of an event holds its listeners in the order of their
\* registration (on of a function it holds changes nothing, on of another and
\* every once add at the end, off keeps the order of the rest), and an emit
\* whose listeners call neither on, off nor emit invokes the listeners
\* registered for its event, and no other, in that order, each with the
\* arguments of the emit, up to the first that throws.
ListenersInOrder ==
    [][call'.no = call.no + 1 =>
        LET c  == call'
            ev == c.event
        IN  /\ c.op = "on" =>
                  listeners' = [listeners EXCEPT ![ev] =
                                  IF SetHas(@, Fn(c.fn)) THEN @ ELSE Append(@, Fn(c.fn))]
            /\ c.op = "once" =>
                  listeners' = [listeners EXCEPT ![ev] =
                                  Append(@, [fn |-> c.fn, wrapper |-> wrappers'])]
            /\ c.op = "off" =>
                  listeners' = [listeners EXCEPT ![ev] =
                                  SelectSeq(@, LAMBDA x : x # Fn(c.fn))]
            /\ c.op \in {"emit", "close"} =>
                  \A n \in 1..Len(c.emits) :
                      LET em  == c.emits[n]
                          cs  == CallsOf(c.calls, n)
                          reg == IF n = 1 THEN listeners[em.event] ELSE em.registered
                      IN  Quiet(c, n) =>
                              /\ Len(cs) <= Len(reg)
                              /\ \A i \in 1..Len(cs) :
                                    /\ cs[i].fn = reg[i].fn
                                    /\ cs[i].wrapper = reg[i].wrapper
                                    /\ cs[i].event = em.event
                                    /\ cs[i].args = em.args
                              /\ ~em.threw => Len(cs) = Len(reg)]_vars

\* an emit with arguments that called two or more listeners and ran to its end,
\* none of them calling on, off or emit
OrderedEmitSeen ==
    /\ call.op = "emit"
    /\ call.threw = NoError
    /\ Quiet(call, 1)
    /\ call.emits[1].args = HelloArgs
    /\ Len(call.emits[1].registered) >= 2
    /\ Len(call.calls) = Len(call.emits[1].registered)

\* C22: a listener registered with once is called at most once for each
\* registration (each wrapper), whatever emits follow, those made from inside
\* the listener included.
OnceFiresOnce ==
    \A w \in 1..Len(fired) : fired[w] <= 1

\* once(event, emitsAgain), then an emit of the event: the wrapper was called,
\* emitsAgain emitted the event again from inside, and the wrapper was called
\* that one time
OnceFiredReentrant ==
    /\ call.op = "emit"
    /\ Len(call.emits) = 2
    /\ \E i \in 1..Len(call.calls) :
          /\ call.calls[i].fn = "emitsAgain"
          /\ call.calls[i].wrapper > 0
          /\ call.calls[i].emit = 1
          /\ fired[call.calls[i].wrapper] = 1

\* C23: once off(event, fn) was called, no emit of the event calls fn, itself
\* or through a wrapper of once, before on or once registers it again.
OffSilences ==
    call.op # "none" => \A i \in 1..Len(call.calls) : ~call.calls[i].offed

\* C24: on, once, off and emit each return the emitter.
ReturnsEmitter ==
    call.op \in {"on", "once", "off", "emit"} => call.returned = "emitter"

\* C24, amended: on, once and off each return the emitter, so that their calls
\* chain; emit returns nothing.
ChainableReturnEmitter ==
    /\ call.op \in {"on", "once", "off"} => call.returned = "emitter"
    /\ call.op = "emit" => call.returned = "undefined"

\* a once called after two other operations returned the emitter
ChainedOnceSeen ==
    /\ call.op = "once"
    /\ call.no >= 3
    /\ call.returned = "emitter"

\* the function named name is registered for the event in the sets ls, by on
\* or inside a wrapper of once
IsRegistered(ls, event, name) ==
    \E i \in 1..Len(ls[event]) : ls[event][i].fn = name

\* C25: off of a listener that is not registered for the event, and emit of an
\* event without listeners, throw nothing, call no listener and leave the
\* listeners of every event as they were.
NoOpCalls ==
    (\/ call.op = "off" /\ ~IsRegistered(call.before, call.event, call.fn)
     \/ call.op = "emit" /\ call.before[call.event] = <<>>)
    => /\ call.threw = NoError
       /\ call.calls = <<>>
       /\ listeners = call.before

\* an off of a function that is not registered, on an event with listeners
OffUnregisteredSeen ==
    /\ call.op = "off"
    /\ ~IsRegistered(call.before, call.event, call.fn)
    /\ call.before[call.event] # <<>>
    /\ listeners = call.before

\* C36: after two or more once(event, fn) with the same fn, an emit of the
\* event calls fn at most once through the wrappers of once.
OnceTwiceSuppressed ==
    call.op = "emit" =>
        \A name \in Fns :
            Cardinality({i \in 1..Len(call.calls) :
                            /\ call.calls[i].emit = 1
                            /\ call.calls[i].wrapper > 0
                            /\ call.calls[i].fn = name}) <= 1

\* C37: an emit that runs to its end calls exactly the listeners that were
\* registered for its event when it was called, each once: what its listeners
\* add with on is not called by it, what they take off with off it still calls.
EmitCallsSnapshot ==
    call.op = "emit" =>
        \A n \in 1..Len(call.emits) :
            LET cs  == CallsOf(call.calls, n)
                reg == call.emits[n].registered
            IN  ~call.emits[n].threw =>
                    /\ Len(cs) = Len(reg)
                    /\ {<<cs[i].fn, cs[i].wrapper>> : i \in 1..Len(cs)}
                           = {<<reg[i].fn, reg[i].wrapper>> : i \in 1..Len(reg)}

(***************************************************************************)
(* Claims about close() of a client with listeners, under SpecClose.       *)
(***************************************************************************)
\* C17: close() returns and never throws; it destroys the socket and emits
\* 'close'; when nothing was thrown it makes no other emit and returns success;
\* when an error was thrown meanwhile (by a 'close' listener: destroy does not
\* throw), it emits 'error' with that error and returns the failure that
\* carries the error and its message.
CloseNeverThrows ==
    call.op = "close" =>
        /\ call.threw = NoError
        /\ sockState \notin {"connecting", "open", "ended"}
        /\ call.emits[1].event = "close"
        /\ IF ~call.emits[1].threw
           THEN /\ Len(call.emits) = 1
                /\ call.returned = Success("undefined")
           ELSE /\ Len(call.emits) = 2
                /\ call.emits[2].event = "error"
                /\ call.emits[2].args = ListenerError
                /\ call.returned = Failure(ListenerError.message, ListenerError)

\* C35: close() on a connected client and the 'close' event of its socket that
\* follows do not both call a listener that on registered for 'close': one
\* closure calls it once.
CloseNotifiesOnce ==
    [][(call.op = "close" /\ call'.op = "sockClose")
          => \A i \in 1..Len(call.calls) : \A j \in 1..Len(call'.calls) :
                 ~ /\ call.calls[i].event = "close"
                   /\ call'.calls[j].event = "close"
                   /\ call.calls[i].wrapper = 0
                   /\ call'.calls[j].wrapper = 0
                   /\ call.calls[i].fn = call'.calls[j].fn]_vars

=============================================================================
